---- MODULE Spec2Model ----
(***************************************************************************)
(* The netidx resolver client: the referral router (Router), and the       *)
(* multiplexer's send loop (ResolverWrap::send) that routes a batch,        *)
(* dispatches the sub-batches to the default and the per-referral           *)
(* connections, collects the replies and follows referrals; and the path    *)
(* algebra of path.rs (canonicalisation, parts, dirname, basename,          *)
(* dirnames, append, the escape-aware separator searches).                  *)
(*                                                                         *)
(* Paths are sequences of one-character strings, compared byte-wise as the *)
(* derived Ord of Path(Arc<str>) does.  Option<Path> is <<>> for None and   *)
(* <<p>> for Some(p).                                                       *)
(***************************************************************************)
EXTENDS Integers, Sequences, FiniteSets, TLC

\* ---------------------------------------------------------------- constants

\* resolver.rs: const MAX_REFERRALS: usize = 128
MAX_REFERRALS == 128

\* bounds of the model
MaxBatch == 2
MaxTime == 2
MaxCalls == 2
MaxRefRounds == 2
WideCalls == 66
MaxStrLen == 5
MaxPartLen == 2

\* ------------------------------------------------------------------- paths

SEP == "/"

\* the byte of a character (str compares byte-wise)
CharCode(c) ==
    CASE c = "/" -> 47
      [] c = "0" -> 48
      [] c = "1" -> 49
      [] c = "2" -> 50
      [] c = "3" -> 51
      [] c = "4" -> 52
      [] c = "5" -> 53
      [] c = "6" -> 54
      [] c = "7" -> 55
      [] c = "8" -> 56
      [] c = "9" -> 57
      [] c = "a" -> 97
      [] c = "b" -> 98
      [] c = "c" -> 99
      [] c = "d" -> 100
      [] c = "f" -> 102
      [] c = "o" -> 111
      [] c = "r" -> 114
      [] c = "x" -> 120
      [] c = "y" -> 121

\* p <= q in the order of str (the order of the BTreeMap's keys)
PathLE(p, q) ==
    LET n == IF Len(p) <= Len(q) THEN Len(p) ELSE Len(q)
        D == {i \in 1..n : p[i] # q[i]}
    IN IF D = {}
       THEN Len(p) <= Len(q)
       ELSE LET k == CHOOSE i \in D : \A j \in D : i <= j
            IN CharCode(p[k]) < CharCode(q[k])

\* str::starts_with: p is a prefix of s as a string
StartsWith(s, p) ==
    /\ Len(p) <= Len(s)
    /\ SubSeq(s, 1, Len(p)) = p

None == <<>>
Some(p) == <<p>>

P_root == <<"/">>
P_a == <<"/", "a">>
P_ab == <<"/", "a", "/", "b">>
P_abc == <<"/", "a", "/", "b", "/", "c">>
P_ac == <<"/", "a", "/", "c">>
P_d == <<"/", "d">>
P_foo == <<"/", "f", "o", "o">>
P_foobar == <<"/", "f", "o", "o", "b", "a", "r">>
P_x == <<"/", "x">>
P_x1 == <<"/", "x", "/", "1">>
P_x2 == <<"/", "x", "/", "2">>

\* the path "/ddd" of the three decimal digits of k
Digit(i) == <<"0", "1", "2", "3", "4", "5", "6", "7", "8", "9">>[i + 1]
WidePath(k) == <<"/", Digit(k \div 100), Digit((k \div 10) % 10), Digit(k % 10)>>

\* -------------------------------------------------------------- operations

\* ToRead / ToWrite: kind and argument (<<>> for Clear and Heartbeat)
Op(kind, p) == [kind |-> kind, arg |-> p]

\* ToPath::path
path(op) ==
    IF op.kind \in {"Clear", "Heartbeat"} THEN None ELSE Some(op.arg)

\* Referral { path, ttl, addrs }
Ref(p, ttl, addrs) == [path |-> p, ttl |-> ttl, addrs |-> addrs]

\* ------------------------------------------------------------------ router

EmptyMap == [k \in {} |-> 0]

\* the greatest key of a non-empty set of keys (Range::next_back)
MaxKey(S) == CHOOSE p \in S : \A q \in S : PathLE(q, p)

\* the scan taking the first matching key whatever its expiry
RECURSIVE RouteScanNoExpiry(_, _, _, _)
RouteScanNoExpiry(cands, pth, cache, t) ==
    IF cands = {}
    THEN [key |-> None, gc |-> <<>>]
    ELSE LET p == MaxKey(cands) IN
         IF ~StartsWith(pth, p)
         THEN RouteScanNoExpiry(cands \ {p}, pth, cache, t)
         ELSE [key |-> Some(p), gc |-> <<>>]

\* the scan that evicts an expired match and still takes it as the bucket
RECURSIVE RouteScanUseEvicted(_, _, _, _)
RouteScanUseEvicted(cands, pth, cache, t) ==
    IF cands = {}
    THEN [key |-> None, gc |-> <<>>]
    ELSE LET p == MaxKey(cands) IN
         IF ~StartsWith(pth, p)
         THEN RouteScanUseEvicted(cands \ {p}, pth, cache, t)
         ELSE IF t < cache[p].exp
              THEN [key |-> Some(p), gc |-> <<>>]
              ELSE [key |-> Some(p), gc |-> <<p>>]

\* the scan going on below an expired match to a shorter cached prefix
RECURSIVE RouteScanPastExpired(_, _, _, _)
RouteScanPastExpired(cands, pth, cache, t) ==
    IF cands = {}
    THEN [key |-> None, gc |-> <<>>]
    ELSE LET p == MaxKey(cands) IN
         IF ~StartsWith(pth, p)
         THEN RouteScanPastExpired(cands \ {p}, pth, cache, t)
         ELSE IF t < cache[p].exp
              THEN [key |-> Some(p), gc |-> <<>>]
              ELSE LET rest == RouteScanPastExpired(cands \ {p}, pth, cache, t)
                   IN [key |-> rest.key, gc |-> <<p>> \o rest.gc]

\* the inner loop of route_batch: walk the keys <= pth downwards
RECURSIVE RouteScan(_, _, _, _)
RouteScan(cands, pth, cache, t) ==
    IF cands = {}
    THEN [key |-> None, gc |-> <<>>]
    ELSE LET p == MaxKey(cands) IN
         IF ~StartsWith(pth, p)
         THEN RouteScan(cands \ {p}, pth, cache, t)
         ELSE IF t < cache[p].exp
              THEN [key |-> Some(p), gc |-> <<>>]
              ELSE [key |-> None, gc |-> <<p>>]

\* a pathless operation put in the bucket of an unexpired cached key
RouteOnePathlessCached(cache, t, op) ==
    LET live == {p \in DOMAIN cache : t < cache[p].exp} IN
    IF path(op) = None
    THEN [key |-> IF live = {} THEN None ELSE Some(MaxKey(live)), gc |-> <<>>]
    ELSE RouteScan({p \in DOMAIN cache : PathLE(p, path(op)[1])},
                   path(op)[1], cache, t)

\* every operation put in the None bucket
RouteOneAlwaysDefault(cache, t, op) == [key |-> None, gc |-> <<>>]

\* where one operation goes: the None bucket for a pathless one
RouteOne(cache, t, op) ==
    IF path(op) = None
    THEN [key |-> None, gc |-> <<>>]
    ELSE LET pth == path(op)[1] IN
         RouteScan({p \in DOMAIN cache : PathLE(p, pth)}, pth, cache, t)

\* the sub-batch of the key replaced by the pair
PushEntryReplace(batches, key, pair) ==
    [k \in DOMAIN batches \cup {key} |->
        IF k = key THEN <<pair>> ELSE batches[k]]

\* the pair put at the front of its sub-batch
PushEntryFront(batches, key, pair) ==
    IF key \in DOMAIN batches
    THEN [batches EXCEPT ![key] = <<pair>> \o @]
    ELSE batches @@ (key :> <<pair>>)

\* batches.entry(key).or_insert_with(|| pool.take()).push(pair)
PushEntry(batches, key, pair) ==
    IF key \in DOMAIN batches
    THEN [batches EXCEPT ![key] = Append(@, pair)]
    ELSE batches @@ (key :> <<pair>>)

\* the outer loop of route_batch over batch[i..], ids counted from 0
RECURSIVE RouteLoop(_, _, _, _, _)
RouteLoop(cache, t, ops, i, acc) ==
    IF i > Len(ops)
    THEN acc
    ELSE LET r == RouteOne(cache, t, ops[i]) IN
         RouteLoop(cache, t, ops, i + 1,
                   [batches |-> PushEntry(acc.batches, r.key, <<i - 1, ops[i]>>),
                    gc |-> acc.gc \o r.gc])

SeqRange(s) == {s[i] : i \in 1..Len(s)}

\* route_batch that evicts every expired entry of the cache
route_batch_sweep(cache, t, ops) ==
    LET acc == RouteLoop(cache, t, ops, 1, [batches |-> EmptyMap, gc |-> <<>>])
    IN [batches |-> acc.batches,
        gc |-> acc.gc,
        cached |-> [p \in {q \in DOMAIN cache : t < cache[q].exp} |-> cache[p]]]

\* Router::route_batch: the sub-batches, and the cache without the expired
\* entries the scan met
route_batch(cache, t, ops) ==
    LET acc == RouteLoop(cache, t, ops, 1, [batches |-> EmptyMap, gc |-> <<>>])
    IN [batches |-> acc.batches,
        gc |-> acc.gc,
        cached |-> [p \in DOMAIN cache \ SeqRange(acc.gc) |-> cache[p]]]

\* Router::get_referral: exact lookup
get_referral(cache, p) ==
    IF p \in DOMAIN cache THEN Some(cache[p].ref) ELSE None

\* add_referral that keeps the entry already cached under the path
add_referral_keep_first(cache, t, r) ==
    IF r.path \in DOMAIN cache
    THEN cache
    ELSE cache @@ (r.path :> [exp |-> t + r.ttl, ref |-> r])

\* add_referral that drops the referral
add_referral_dropped(cache, t, r) == cache

\* Router::add_referral
add_referral(cache, t, r) ==
    [p \in DOMAIN cache \cup {r.path} |->
        IF p = r.path THEN [exp |-> t + r.ttl, ref |-> r] ELSE cache[p]]

\* ------------------------------------------------------------------- state

VARIABLES
    cached,     \* Router.cached: path -> [exp, ref]
    now,        \* the clock Instant::now reads
    by_path,    \* ResolverWrapInner.by_path: path -> connection
    pc,         \* where the send call is: idle, route, await, done
    batch,      \* the batch the call was given
    referrals,  \* send's local counter
    waiters,    \* the sub-requests of the current iteration, in dispatch order
    finished,   \* send's local vector of (id, reply)
    result,     \* what the call returned
    routed,     \* what the last route_batch returned
    iters,      \* how many times the call entered the loop body
    got,        \* id -> the reply paired with it in the last iteration collected
    calls,      \* how many send calls were made
    lock,       \* who holds the Mutex around ResolverWrapInner
    peer,       \* a second caller's send call on the same multiplexer
    facade,     \* the last call of a facade method and what it returned
    pathcall    \* the last call of a function of the path algebra and what it returned

vars == <<cached, now, by_path, pc, batch, referrals, waiters, finished,
          result, routed, iters, got, calls, lock, peer, facade, pathcall>>

NoResult == [tag |-> "None", val |-> <<>>, msg |-> ""]
NoRoute == [batches |-> EmptyMap, gc |-> <<>>]

\* the Mutex is free, or held by a caller
Free == "free"

\* a caller that is not in a send call
IdlePeer ==
    [pc |-> "idle", batch |-> <<>>, referrals |-> 0, waiters |-> <<>>,
     result |-> NoResult, during |-> "idle", installed |-> {}]

\* no facade method was called
NoFacade == [name |-> "none", paths |-> <<>>, from |-> NoResult, out |-> NoResult]

\* no function of the path algebra was called
NoPathCall == [fn |-> "none", s |-> <<>>, part |-> <<>>, out |-> <<>>]

Init ==
    /\ cached = EmptyMap
    /\ now = 0
    /\ by_path = EmptyMap
    /\ pc = "idle"
    /\ batch = <<>>
    /\ referrals = 0
    /\ waiters = <<>>
    /\ finished = <<>>
    /\ result = NoResult
    /\ routed = NoRoute
    /\ iters = 0
    /\ got = EmptyMap
    /\ calls = 0
    /\ lock = Free
    /\ peer = IdlePeer
    /\ facade = NoFacade
    /\ pathcall = NoPathCall


\* ----------------------------------------------------------------- replies

\* the terminal reply of the backend behind key k to op (FromRead / FromWrite)
Terminal(k, op) ==
    [type |-> CASE op.kind = "Resolve" -> "Resolved"
                [] op.kind = "List" -> "List"
                [] op.kind = "Table" -> "Table"
                [] op.kind \in {"Publish", "PublishDefault"} -> "Published"
                [] OTHER -> "Unpublished",
     by |-> k, op |-> op]

ErrorReply(k, op) == [type |-> "Error", by |-> k, op |-> op]

ReferralReply(k, op, r) == [type |-> "Referral", by |-> k, op |-> op, ref |-> r]

\* referral that takes no reply for a Referral
referral_never(reply) == <<>>

\* ToReferral::referral: Ok(r) as <<r>>, Err(m) as <<>>
referral(reply) ==
    IF reply.type = "Referral" THEN <<reply.ref>> ELSE <<>>

\* what a backend may answer to one operation: its terminal reply, an Error
\* when errs, or a referral of refs
ReplyChoices(k, op, refs, errs) ==
    {Terminal(k, op)}
        \cup (IF errs THEN {ErrorReply(k, op)} ELSE {})
        \cup {ReferralReply(k, op, r) : r \in refs}

\* the reply batches a backend may give to a request: every index once
RECURSIVE Answers(_, _, _, _)
Answers(k, req, refs, errs) ==
    IF req = <<>>
    THEN {<<>>}
    ELSE {<<<<Head(req)[1], a>>>> \o rest :
             a \in ReplyChoices(k, Head(req)[2], refs, errs),
             rest \in Answers(k, Tail(req), refs, errs)}

\* ------------------------------------------------------------ connections

\* the default connection
DefaultConn == [addrs |-> "default"]
\* a connection to the addresses X whatever the referral names
NewConnFixed(r) == [addrs |-> "X"]

\* C::new(Config::from(r), ..)
NewConn(r) == [addrs |-> r.addrs]

\* the orders in which a HashMap's into_iter may yield the keys S
Orders(S) ==
    {s \in [1..Cardinality(S) -> S] :
        \A i, j \in 1..Cardinality(S) : i # j => s[i] # s[j]}

Waiter(k, conn, req) ==
    [key |-> k, conn |-> conn, req |-> req, st |-> "pending", resp |-> <<>>]

\* the loop opening a connection for every sub-batch with a referral path,
\* whether by_path holds one or not
RECURSIVE DispatchReopen(_, _, _, _, _)
DispatchReopen(order, i, rb, bp, ws) ==
    IF i > Len(order)
    THEN [by_path |-> bp, waiters |-> ws]
    ELSE LET k == order[i]
             sub == rb.batches[k]
         IN IF k = None
            THEN DispatchReopen(order, i + 1, rb, bp,
                                Append(ws, Waiter(k, DefaultConn, sub)))
            ELSE LET r == get_referral(rb.cached, k[1])[1]
                     con == NewConn(r)
                 IN DispatchReopen(order, i + 1, rb, (k[1] :> con) @@ bp,
                                   Append(ws, Waiter(k, con, sub)))

\* the body of send's for loop over the sub-batches, keys taken in `order`
RECURSIVE Dispatch(_, _, _, _, _)
Dispatch(order, i, rb, bp, ws) ==
    IF i > Len(order)
    THEN [by_path |-> bp, waiters |-> ws]
    ELSE LET k == order[i]
             sub == rb.batches[k]
         IN IF k = None
            THEN Dispatch(order, i + 1, rb, bp, Append(ws, Waiter(k, DefaultConn, sub)))
            ELSE IF k[1] \in DOMAIN bp
                 THEN Dispatch(order, i + 1, rb, bp,
                               Append(ws, Waiter(k, bp[k[1]], sub)))
                 ELSE LET r == get_referral(rb.cached, k[1])[1]
                          con == NewConn(r)
                      IN Dispatch(order, i + 1, rb, bp @@ (k[1] :> con),
                                  Append(ws, Waiter(k, con, sub)))

\* ------------------------------------------------------------- collecting

\* the inner for loop of send over one reply batch
RECURSIVE CollectReplies(_, _, _, _)
CollectReplies(resp, j, t, acc) ==
    IF j > Len(resp)
    THEN acc
    ELSE LET id == resp[j][1]
             reply == resp[j][2]
             r == referral(reply)
         IN IF r # <<>>
            THEN CollectReplies(resp, j + 1, t,
                     [acc EXCEPT !.cached = add_referral(acc.cached, t, r[1]),
                                 !.referral = TRUE])
            ELSE CollectReplies(resp, j + 1, t,
                     [acc EXCEPT !.finished = Append(@, <<id, reply>>)])

\* the outer loop going on to the next result after a failed one
RECURSIVE CollectWaitersSkipFailed(_, _, _, _)
CollectWaitersSkipFailed(ws, i, t, acc) ==
    IF i > Len(ws)
    THEN acc
    ELSE IF ws[i].st = "err"
         THEN CollectWaitersSkipFailed(ws, i + 1, t, acc)
         ELSE CollectWaitersSkipFailed(ws, i + 1, t,
                                       CollectReplies(ws[i].resp, 1, t, acc))

\* the outer for loop of send over qresult: `r?` returns at the first failure
RECURSIVE CollectWaiters(_, _, _, _)
CollectWaiters(ws, i, t, acc) ==
    IF i > Len(ws)
    THEN acc
    ELSE IF ws[i].st = "err"
         THEN [acc EXCEPT !.failed = TRUE]
         ELSE CollectWaiters(ws, i + 1, t, CollectReplies(ws[i].resp, 1, t, acc))

\* insertion of a pair into a vector sorted by id, after the equal ids
RECURSIVE InsertById(_, _)
InsertById(s, x) ==
    IF s = <<>>
    THEN <<x>>
    ELSE IF x[1] < Head(s)[1]
         THEN <<x>> \o s
         ELSE <<Head(s)>> \o InsertById(Tail(s), x)

\* finished left in the order the replies arrived
SortByIdUnsorted(s) == s

\* finished.sort_by_key(|(id, _)| *id)
RECURSIVE SortById(_)
SortById(s) ==
    IF s = <<>> THEN <<>>
    ELSE InsertById(SortById(SubSeq(s, 1, Len(s) - 1)), s[Len(s)])

\* res.extend(finished.drain(..).map(|(_, m)| m)) after the sort
Drain(fin) ==
    LET s == SortById(fin) IN [i \in 1..Len(s) |-> s[i][2]]

Ok(v) == [tag |-> "Ok", val |-> v, msg |-> ""]
Err(m) == [tag |-> "Err", val |-> <<>>, msg |-> m]
TransportError == "transport"
DepthError == "maximum referral depth 128 reached, giving up"

\* the depth test one iteration late, and one iteration early
DepthExceededLate(n) == n > MAX_REFERRALS + 1
DepthExceededEarly(n) == n >= MAX_REFERRALS

\* referrals > MAX_REFERRALS, after the increment
DepthExceeded(n) == n > MAX_REFERRALS

\* id -> the reply a backend paired with it, over the answered waiters
RepliesById(ws) ==
    LET pairs == UNION {SeqRange(ws[i].resp) : i \in 1..Len(ws)}
    IN [id \in {pr[1] : pr \in pairs} |-> (CHOOSE pr \in pairs : pr[1] = id)[2]]


\* ------------------------------------------------------------ the inputs

ReadOps == {Op("Resolve", P_a), Op("Resolve", P_x1)}
WriteOps == {Op("Publish", P_x1), Op("Clear", <<>>)}

\* the batches of at most MaxBatch operations over S
BatchesOver(S) == UNION {[1..n -> S] : n \in 0..MaxBatch}

\* a batch is a Vec<ToRead> or a Vec<ToWrite>
Batches == BatchesOver(ReadOps) \cup BatchesOver(WriteOps)

\* the referral the backends answer with
R_x == Ref(P_x, 1, "X")
Referrals == {R_x}

\* -------------------------------------------------------------- the steps

\* a caller calls send(batch): referrals = 0 and the loop is entered
Send(ops) ==
    /\ pc \in {"idle", "done"}
    /\ calls' = calls + 1
    /\ batch' = ops
    /\ referrals' = 0
    /\ pc' = "route"
    /\ waiters' = <<>>
    /\ finished' = <<>>
    /\ result' = NoResult
    /\ routed' = NoRoute
    /\ iters' = 0
    /\ got' = EmptyMap
    /\ UNCHANGED <<cached, now, by_path,
                   lock, peer, facade, pathcall>>

\* by_path reset as soon as it holds MAX_REFERRALS entries
SledgehammerAtLimit(bp) ==
    IF Cardinality(DOMAIN bp) >= MAX_REFERRALS THEN EmptyMap ELSE bp

\* by_path never reset
SledgehammerNever(bp) == bp

\* if inner.by_path.len() > MAX_REFERRALS { inner.by_path.clear() }
Sledgehammer(bp) ==
    IF Cardinality(DOMAIN bp) > MAX_REFERRALS THEN EmptyMap ELSE bp

\* finished carried over from the iteration before
KeepFinished(fin) == fin

\* inner.fi_pool.take(): the finished vector of an iteration starts empty
TakeFinished(fin) == <<>>

\* the guard held through the await
UnlockNever(c) == c

\* the MutexGuard dropped at the end of the block it was taken in
Unlock(c) == Free

\* the locked block of send: route the batch, dispatch every sub-batch, and take
\* the empty finished vector
Route ==
    /\ pc = "route"
    /\ lock = Free
    /\ lock' = Unlock("main")
    /\ LET rb == route_batch(cached, now, batch) IN
       \E order \in Orders(DOMAIN rb.batches) :
           LET d == Dispatch(order, 1, rb, Sledgehammer(by_path), <<>>) IN
           /\ cached' = rb.cached
           /\ by_path' = d.by_path
           /\ waiters' = d.waiters
           /\ routed' = [batches |-> rb.batches, gc |-> rb.gc]
    /\ finished' = TakeFinished(finished)
    /\ iters' = iters + 1
    /\ pc' = "await"
    /\ UNCHANGED <<now, batch, referrals, result, got, calls, peer, facade, pathcall>>

\* the backend behind waiter w answers its request, or its completion handle fails
Reply(w, refs, errs) ==
    /\ pc = "await"
    /\ waiters[w].st = "pending"
    /\ \E st \in {"ok", "err"} :
         \E resp \in IF st = "ok"
                     THEN Answers(waiters[w].key, waiters[w].req, refs, errs)
                     ELSE {<<>>} :
            waiters' = [waiters EXCEPT ![w].st = st, ![w].resp = resp]
    /\ UNCHANGED <<cached, now, by_path, pc, batch, referrals, finished, result,
                   routed, iters, got, calls,
                   lock, peer, facade, pathcall>>

\* a backend answers; it refers the caller on only in the first MaxRefRounds
\* iterations of a call
BackendReply ==
    \E w \in 1..Len(waiters) :
        Reply(w, IF referrals < MaxRefRounds THEN Referrals ELSE {}, FALSE)

AllAnswered ==
    /\ pc = "await"
    /\ \A w \in 1..Len(waiters) : waiters[w].st # "pending"

\* the loops undoing every referral of the cache when a result has failed
CollectedRollback(ws) ==
    LET c == CollectWaiters(ws, 1, now,
                            [cached |-> cached, finished |-> finished,
                             referral |-> FALSE, failed |-> FALSE])
    IN IF c.failed THEN [c EXCEPT !.cached = EmptyMap] ELSE c

\* the two for loops of send over the joined results ws, from the current state
Collected(ws) ==
    CollectWaiters(ws, 1, now,
                   [cached |-> cached, finished |-> finished,
                    referral |-> FALSE, failed |-> FALSE])

\* what the iteration returns after the loops, NoResult when it goes round again
Outcome(c, n) ==
    IF c.failed THEN Err(TransportError)
    ELSE IF ~c.referral THEN Ok(Drain(c.finished))
    ELSE IF DepthExceeded(n + 1) THEN Err(DepthError)
    ELSE NoResult

\* send after join_all: install the referrals, gather the other replies, then
\* return the sorted replies, fail, or go round again
Collect ==
    /\ AllAnswered
    /\ LET c == Collected(waiters)
           out == Outcome(c, referrals)
       IN /\ c.referral => lock = Free
          /\ cached' = c.cached
          /\ finished' = c.finished
          /\ referrals' = IF ~c.failed /\ c.referral THEN referrals + 1 ELSE referrals
          /\ result' = out
          /\ pc' = IF out = NoResult THEN "route" ELSE "done"
    /\ got' = RepliesById(waiters)
    /\ waiters' = <<>>
    /\ routed' = NoRoute
    /\ UNCHANGED <<now, by_path, batch, iters, calls,
                   lock, peer, facade, pathcall>>

\* time passes
Tick ==
    /\ now < MaxTime
    /\ now' = now + 1
    /\ UNCHANGED <<cached, by_path, pc, batch, referrals, waiters, finished,
                   result, routed, iters, got, calls,
                   lock, peer, facade, pathcall>>

CallSend == calls < MaxCalls /\ \E ops \in Batches : Send(ops)

Next == CallSend \/ Route \/ BackendReply \/ Collect \/ Tick

\* the multiplexer with one caller making send calls one after the other
Spec == Init /\ [][Next]_vars

\* ------------------------------------------- backends that keep referring

DeepBatches ==
    {<<Op("Resolve", P_x1)>>, <<Op("Resolve", P_a), Op("Resolve", P_x1)>>}

\* the first call on a fresh multiplexer
FirstSend == calls = 0 /\ \E ops \in DeepBatches : Send(ops)

\* a backend that may answer with the referral R_x in every iteration
PathologicalReply == \E w \in 1..Len(waiters) : Reply(w, {R_x}, TRUE)

NextDeep == FirstSend \/ Route \/ PathologicalReply \/ Collect

\* one send call against backends that may refer the caller on for ever
SpecDeep == Init /\ [][NextDeep]_vars

\* ------------------------------------------------ two concurrent callers

PeerBatches == {<<Op("Resolve", P_x2)>>}

\* the referrals the second caller's backends answer with: /x for one second,
\* and /x already expired
R_x0 == Ref(P_x, 0, "X")
PeerReferrals == {R_x, R_x0}

\* the <<path, expiry>> of the referrals among the replies of ws, installed at t
InstalledBy(ws, t) ==
    {<<pr[2].ref.path, t + pr[2].ref.ttl>> :
        pr \in {q \in UNION {{ws[w].resp[j] : j \in 1..Len(ws[w].resp)} :
                                w \in 1..Len(ws)} : q[2].type = "Referral"}}

\* the second caller calls send(ops) on a clone of the same resolver
PeerSend ==
    /\ peer.pc = "idle"
    /\ \E ops \in PeerBatches :
          peer' = [IdlePeer EXCEPT !.pc = "route", !.batch = ops]
    /\ UNCHANGED <<cached, now, by_path, pc, batch, referrals, waiters, finished,
                   result, routed, iters, got, calls, lock, facade, pathcall>>

\* the locked block of the second caller's send
PeerRoute ==
    /\ peer.pc = "route"
    /\ lock = Free
    /\ lock' = Unlock("peer")
    /\ LET rb == route_batch(cached, now, peer.batch) IN
       \E order \in Orders(DOMAIN rb.batches) :
           LET d == Dispatch(order, 1, rb, Sledgehammer(by_path), <<>>) IN
           /\ cached' = rb.cached
           /\ by_path' = d.by_path
           /\ peer' = [peer EXCEPT !.pc = "await", !.waiters = d.waiters,
                                   !.during = pc]
    /\ UNCHANGED <<now, pc, batch, referrals, waiters, finished, result, routed,
                   iters, got, calls, facade, pathcall>>

\* a backend answers a sub-request of the second caller
PeerReply ==
    /\ peer.pc = "await"
    /\ \E w \in 1..Len(peer.waiters) :
          /\ peer.waiters[w].st = "pending"
          /\ \E resp \in Answers(peer.waiters[w].key, peer.waiters[w].req,
                                  IF peer.referrals < MaxRefRounds
                                  THEN PeerReferrals ELSE {},
                                  FALSE) :
                peer' = [peer EXCEPT !.waiters[w].st = "ok",
                                     !.waiters[w].resp = resp]
    /\ UNCHANGED <<cached, now, by_path, pc, batch, referrals, waiters, finished,
                   result, routed, iters, got, calls, lock, facade, pathcall>>

\* the second caller's send after join_all
PeerCollect ==
    /\ peer.pc = "await"
    /\ \A w \in 1..Len(peer.waiters) : peer.waiters[w].st # "pending"
    /\ LET c == CollectWaiters(peer.waiters, 1, now,
                               [cached |-> cached, finished |-> TakeFinished(<<>>),
                                referral |-> FALSE, failed |-> FALSE])
           out == Outcome(c, peer.referrals)
       IN /\ c.referral => lock = Free
          /\ cached' = c.cached
          /\ peer' = [peer EXCEPT
                         !.referrals = IF ~c.failed /\ c.referral THEN @ + 1 ELSE @,
                         !.result = out,
                         !.waiters = <<>>,
                         !.installed = IF c.failed THEN @
                                       ELSE @ \cup InstalledBy(peer.waiters, now),
                         !.pc = IF out = NoResult THEN "route" ELSE "done"]
    /\ UNCHANGED <<now, by_path, pc, batch, referrals, waiters, finished, result,
                   routed, iters, got, calls, lock, facade, pathcall>>

\* the first caller's call
ConcSend == calls = 0 /\ Send(<<Op("Resolve", P_x1)>>)

NextConc ==
    \/ ConcSend \/ Route \/ BackendReply \/ Collect
    \/ PeerSend \/ PeerRoute \/ PeerReply \/ PeerCollect
    \/ Tick

\* two callers, one send call each, on one multiplexer while time passes
SpecConc == Init /\ [][NextConc]_vars

\* ------------------------------------------- a federation of many clusters

\* the batch of the call after n calls: two paths never used before, below
\* every path used so far
WideBatch(n) ==
    <<Op("Resolve", WidePath(2 * (WideCalls - n) - 1)),
      Op("Resolve", WidePath(2 * (WideCalls - n)))>>

WideSend == calls < WideCalls /\ Send(WideBatch(calls))

\* the default cluster refers every path to a cluster of its own, which
\* resolves it
WideAnswer(k, req) ==
    [j \in 1..Len(req) |->
        <<req[j][1],
          IF k = None
          THEN ReferralReply(k, req[j][2], Ref(req[j][2].arg, 1, "W"))
          ELSE Terminal(k, req[j][2])>>]

WideReply ==
    /\ pc = "await"
    /\ \E w \in 1..Len(waiters) :
          /\ waiters[w].st = "pending"
          /\ waiters' = [waiters EXCEPT
                            ![w].st = "ok",
                            ![w].resp = WideAnswer(waiters[w].key, waiters[w].req)]
    /\ UNCHANGED <<cached, now, by_path, pc, batch, referrals, finished, result,
                   routed, iters, got, calls,
                   lock, peer, facade, pathcall>>

NextWide == WideSend \/ Route \/ WideReply \/ Collect

\* WideCalls calls one after the other, each referred to two new clusters
SpecWide == Init /\ [][NextWide]_vars

\* ------------------------------------------------ a cluster that moves

\* the referral for /x once its cluster has moved to other addresses
R_xY == Ref(P_x, 1, "Y")
MovedReferrals == {R_x, R_xY}

MovedSend == calls < MaxCalls /\ Send(<<Op("Resolve", P_x1)>>)

\* a backend answers, referring /x to the old or to the new addresses
MovedReply ==
    /\ pc = "await"
    /\ \E w \in 1..Len(waiters) :
          Reply(w, IF referrals < MaxRefRounds THEN MovedReferrals ELSE {}, FALSE)

NextMoved == MovedSend \/ Route \/ MovedReply \/ Collect \/ Tick

\* one caller resolving /x/1 while the cluster of /x changes its addresses
SpecMoved == Init /\ [][NextMoved]_vars

\* --------------------------------------------------------- the router alone

RouterRefs == {Ref(p, ttl, "A") : p \in {P_a, P_ab, P_foo}, ttl \in {0, 1}}
RouterOps == {Op("Resolve", p) : p \in {P_ab, P_abc, P_ac, P_d, P_foobar}}

\* router.add_referral(r); the router sits behind the multiplexer's lock, and
\* the sub-batches of a route_batch are consumed before it is used again
AddReferral(r) ==
    /\ routed = NoRoute
    /\ cached' = add_referral(cached, now, r)
    /\ UNCHANGED <<now, by_path, pc, batch, referrals, waiters, finished,
                   result, routed, iters, got, calls,
                   lock, peer, facade, pathcall>>

\* router.route_batch(pool, ops)
RouteBatch(ops) ==
    /\ routed = NoRoute
    /\ LET rb == route_batch(cached, now, ops) IN
          /\ cached' = rb.cached
          /\ routed' = [batches |-> rb.batches, gc |-> rb.gc]
    /\ batch' = ops
    /\ UNCHANGED <<now, by_path, pc, referrals, waiters, finished, result,
                   iters, got, calls,
                   lock, peer, facade, pathcall>>

\* the caller has consumed the iterator route_batch returned
DropRouted ==
    /\ pc = "idle"
    /\ routed # NoRoute
    /\ routed' = NoRoute
    /\ batch' = <<>>
    /\ UNCHANGED <<cached, now, by_path, pc, referrals, waiters, finished,
                   result, iters, got, calls,
                   lock, peer, facade, pathcall>>

RouterAdd == \E r \in RouterRefs : AddReferral(r)
RouterRoute == \E ops \in BatchesOver(RouterOps) : RouteBatch(ops)

NextRouter == RouterAdd \/ RouterRoute \/ DropRouted \/ Tick

\* a Router driven by add_referral and route_batch calls while time passes
SpecRouter == Init /\ [][NextRouter]_vars

\* ------------------------------------------------------------ the facades

\* batch.into_iter().map(f): the batch a facade builds from its paths
ToBatch(kind, paths) == [i \in 1..Len(paths) |-> Op(kind, paths[i])]

\* what a reply carries: Resolved(r) => r, List(paths) => paths
Payload(reply) == [by |-> reply.by, op |-> reply.op]

\* bail! with the request and the reply the message formats
ErrAt(m, req, reply) == [tag |-> "Err", val |-> <<req, reply>>, msg |-> m]

\* the index of the first reply of v from i on that is not a ty, Len(v) + 1
\* if none
RECURSIVE FirstBad(_, _, _)
FirstBad(v, ty, i) ==
    IF i > Len(v) THEN i
    ELSE IF v[i].type # ty THEN i
    ELSE FirstBad(v, ty, i + 1)

\* resolve that pushes whatever the reply is
resolve_unchecked(paths, from) ==
    IF from.tag # "Ok" THEN from
    ELSE IF Len(from.val) # Len(paths)
    THEN Err("unexpected number of resolve results")
    ELSE Ok([i \in 1..Len(paths) |-> Payload(from.val[i])])

\* ResolverRead::resolve, from being what send returned for the Resolve batch
resolve(paths, from) ==
    IF from.tag # "Ok" THEN from
    ELSE IF Len(from.val) # Len(paths)
    THEN Err("unexpected number of resolve results")
    ELSE LET bad == FirstBad(from.val, "Resolved", 1)
         IN IF bad <= Len(from.val)
            THEN ErrAt("unexpected resolve response", <<>>, from.val[bad])
            ELSE Ok([i \in 1..Len(from.val) |-> Payload(from.val[i])])

\* list that takes the last reply whatever their number
list_unchecked(from) ==
    IF from.tag # "Ok" THEN from
    ELSE IF Len(from.val) = 0
    THEN Err("expected 1 result from list")
    ELSE IF from.val[Len(from.val)].type = "List"
         THEN Ok(Payload(from.val[Len(from.val)]))
         ELSE ErrAt("unexpected result from list", <<>>, from.val[Len(from.val)])

\* ResolverRead::list, from being what send returned for [List(path)]
list(from) ==
    IF from.tag # "Ok" THEN from
    ELSE IF Len(from.val) # 1
    THEN Err("expected 1 result from list")
    ELSE IF from.val[1].type = "List"
         THEN Ok(Payload(from.val[1]))
         ELSE ErrAt("unexpected result from list", <<>>, from.val[1])

\* send_expect that names the last reply that differs
send_expect_last(to, from, expected) ==
    IF from.tag # "Ok" THEN from
    ELSE IF Len(from.val) # Len(to)
    THEN Err("unexpected number of responses")
    ELSE LET bad == {i \in 1..Len(to) : from.val[i].type # expected} IN
         IF bad = {} THEN Ok(<<>>)
         ELSE LET i == CHOOSE i \in bad : \A j \in bad : j <= i
              IN ErrAt("unexpected response to", to[i], from.val[i])

\* ResolverWrite::send_expect, from being what send returned for the batch to
send_expect(to, from, expected) ==
    IF from.tag # "Ok" THEN from
    ELSE IF Len(from.val) # Len(to)
    THEN Err("unexpected number of responses")
    ELSE LET bad == FirstBad(from.val, expected, 1)
         IN IF bad <= Len(from.val)
            THEN ErrAt("unexpected response to", to[bad], from.val[bad])
            ELSE Ok(<<>>)

\* ResolverWrite::publish, publish_default, unpublish
publish(paths, from) == send_expect(ToBatch("Publish", paths), from, "Published")
publish_default(paths, from) ==
    send_expect(ToBatch("PublishDefault", paths), from, "Published")
unpublish(paths, from) ==
    send_expect(ToBatch("Unpublish", paths), from, "Unpublished")

\* ResolverWrite::clear, from being what send returned for [Clear]
clear(from) ==
    IF from.tag # "Ok" THEN from
    ELSE IF Len(from.val) # 1
    THEN Err("unexpected response to clear command")
    ELSE IF from.val[1].type = "Unpublished"
         THEN Ok(<<>>)
         ELSE ErrAt("unexpected response to clear command", <<>>, from.val[1])

\* the path lists given to a facade
FacadePaths == UNION {[1..n -> {P_a, P_x1}] : n \in 0..MaxBatch}

\* the reply types a backend may answer with
ReplyTypes == {"Resolved", "List", "Published", "Unpublished", "Error"}

\* a reply vector send may hand back for the batch to: reply i of type ty[i],
\* answering to[i] when there is one
ReplyVector(to, ty) ==
    [i \in 1..Len(ty) |->
        [type |-> ty[i], by |-> None,
         op |-> IF i <= Len(to) THEN to[i] ELSE Op("none", <<>>)]]

\* the types of the replies of a vector: any number of replies up to one more
\* than the longest batch, each of any type
TypeVectors == UNION {[1..n -> ReplyTypes] : n \in 0..(MaxBatch + 1)}

\* a facade method was called with paths, send returned from to it, and it
\* returned
Called(name, paths, from) ==
    /\ facade' = [name |-> name, paths |-> paths, from |-> from,
                  out |-> CASE name = "resolve" -> resolve(paths, from)
                            [] name = "list" -> list(from)
                            [] name = "publish" -> publish(paths, from)
                            [] name = "publish_default" -> publish_default(paths, from)
                            [] name = "unpublish" -> unpublish(paths, from)
                            [] name = "clear" -> clear(from)]
    /\ UNCHANGED <<cached, now, by_path, pc, batch, referrals, waiters, finished,
                   result, routed, iters, got, calls, lock, peer, pathcall>>

\* send returns an error or a reply vector for the batch `to` the facade built
FacadeCall(name, paths, to) ==
    \E ty \in TypeVectors :
        \E from \in {Err(TransportError), Err(DepthError), Ok(ReplyVector(to, ty))} :
            Called(name, paths, from)

CallResolve ==
    /\ facade = NoFacade
    /\ \E paths \in FacadePaths :
          FacadeCall("resolve", paths, ToBatch("Resolve", paths))

CallList ==
    /\ facade = NoFacade
    /\ \E p \in {P_a, P_x1} : FacadeCall("list", <<p>>, <<Op("List", p)>>)

CallPublish ==
    /\ facade = NoFacade
    /\ \E paths \in FacadePaths :
          FacadeCall("publish", paths, ToBatch("Publish", paths))

CallPublishDefault ==
    /\ facade = NoFacade
    /\ \E paths \in FacadePaths :
          FacadeCall("publish_default", paths, ToBatch("PublishDefault", paths))

CallUnpublish ==
    /\ facade = NoFacade
    /\ \E paths \in FacadePaths :
          FacadeCall("unpublish", paths, ToBatch("Unpublish", paths))

CallClear ==
    /\ facade = NoFacade
    /\ FacadeCall("clear", <<>>, <<Op("Clear", <<>>)>>)

NextFacade ==
    \/ CallResolve \/ CallList
    \/ CallPublish \/ CallPublishDefault \/ CallUnpublish \/ CallClear

\* one call of a facade method, applied to whatever send may return
SpecFacade == Init /\ [][NextFacade]_vars

\* ---------------------------------------------------------- the path algebra

\* strings are sequences of one-character strings; an index is 0-based as in
\* the source, and Option<T> is <<>> for None and <<x>> for Some(x)

ESC == "\\"

\* how many esc characters in a row end just before index i of s
RECURSIVE EscRun(_, _, _)
EscRun(s, esc, i) ==
    IF i > 0 /\ s[i] = esc THEN 1 + EscRun(s, esc, i - 1) ELSE 0

\* utils::is_escaped: the character at index i is preceded by an odd number
\* of esc
is_escaped(s, sep, esc, i) == EscRun(s, esc, i) % 2 = 1

\* the loop of split_escaped from position i on, cur being the component read
\* so far
RECURSIVE SplitEscaped(_, _, _, _, _, _)
SplitEscaped(s, esc, sep, i, cur, acc) ==
    IF i > Len(s) THEN Append(acc, cur)
    ELSE IF s[i] = sep /\ ~is_escaped(s, sep, esc, i - 1)
         THEN SplitEscaped(s, esc, sep, i + 1, <<>>, Append(acc, cur))
         ELSE SplitEscaped(s, esc, sep, i + 1, Append(cur, s[i]), acc)

\* utils::split_escaped: s split at every sep that is not escaped
split_escaped(s, esc, sep) == SplitEscaped(s, esc, sep, 1, <<>>, <<>>)

\* Iterator::skip
Skip(xs, n) == SubSeq(xs, n + 1, Len(xs))

\* parts that skips one item for every absolute path, "/" included
parts_skip_one(s) ==
    Skip(split_escaped(s, ESC, SEP),
         IF Len(s) > 0 /\ s[1] = "/" THEN 1 ELSE 0)

\* Path::parts
parts(s) ==
    LET skip == IF s = <<"/">> THEN 2
                ELSE IF Len(s) > 0 /\ s[1] = "/" THEN 1
                ELSE 0
    IN Skip(split_escaped(s, ESC, SEP), skip)

\* is_canonical: no part is empty
is_canonical(s) == \A i \in DOMAIN parts(s) : parts(s)[i] # <<>>

\* the for loop of canonize over the parts ps[i..] that pass the filter keep
RECURSIVE JoinParts(_, _, _, _, _)
JoinParts(ps, keep, i, first, res) ==
    IF i > Len(ps) THEN res
    ELSE IF i \notin keep THEN JoinParts(ps, keep, i + 1, first, res)
    ELSE JoinParts(ps, keep, i + 1, FALSE,
                   (IF first THEN res ELSE Append(res, SEP)) \o ps[i])

\* canonize that drops only the first of a run of empty parts
canonize_collapse_once(s) ==
    IF Len(s) > 0
    THEN LET ps == parts(s)
             keep == {i \in DOMAIN ps :
                         ps[i] # <<>> \/ (i > 1 /\ ps[i - 1] = <<>>)}
         IN JoinParts(ps, keep, 1, TRUE, IF s[1] = SEP THEN <<SEP>> ELSE <<>>)
    ELSE <<>>

\* canonize
canonize(s) ==
    IF Len(s) > 0
    THEN LET ps == parts(s)
             keep == {i \in DOMAIN ps : ps[i] # <<>>}
         IN JoinParts(ps, keep, 1, TRUE, IF s[1] = SEP THEN <<SEP>> ELSE <<>>)
    ELSE <<>>

\* the string taken as it is, as FromStr does
Path_from_unchecked(s) == s

\* From<String> for Path (and From<&str>, From<&String>, From<Chars>)
Path_from(s) == IF is_canonical(s) THEN s ELSE canonize(s)

\* <Path as FromStr>::from_str: Ok(Path(Arc::from(s)))
Path_from_str(s) == s

\* <Path as Pack>::decode on a buffer holding the length len and then bytes:
\* Err(TooBig), as None, when fewer than len bytes remain, else Ok of the
\* first len bytes as they are
Path_decode(len, bytes) ==
    IF len > Len(bytes) THEN None ELSE Some(SubSeq(bytes, 1, len))

\* Path::root
root == Path_from(<<"/">>)

\* str::find(SEP) and str::rfind(SEP): the index of the first, or last, SEP
StrFind(s, dir) ==
    LET I == {i \in 1..Len(s) : s[i] = SEP} IN
    IF I = {} THEN None
    ELSE IF dir = "find"
         THEN Some((CHOOSE i \in I : \A j \in I : i <= j) - 1)
         ELSE Some((CHOOSE i \in I : \A j \in I : i >= j) - 1)

\* find_sep_int that returns what f finds, escaped or not
find_sep_int_raw(s, dir) == StrFind(s, dir)

\* Path::find_sep_int, f being |s| s.find(SEP) or |s| s.rfind(SEP)
RECURSIVE find_sep_int(_, _)
find_sep_int(s, dir) ==
    IF Len(s) = 0 THEN None
    ELSE LET r == StrFind(s, dir) IN
         IF r = None THEN None
         ELSE IF ~is_escaped(s, SEP, ESC, r[1]) THEN r
         ELSE find_sep_int(SubSeq(s, 1, r[1]), dir)

\* Path::rfind_sep and Path::find_sep
rfind_sep(s) == find_sep_int(s, "rfind")
find_sep(s) == find_sep_int(s, "find")

\* Path::dirname
dirname(s) ==
    LET r == rfind_sep(s) IN
    IF r = None THEN None
    ELSE IF r[1] = 0 THEN None ELSE Some(SubSeq(s, 1, r[1]))

\* Path::basename
basename(s) ==
    LET r == rfind_sep(s) IN
    IF r = None
    THEN IF Len(s) > 0 THEN Some(s) ELSE None
    ELSE IF Len(s) <= 1 THEN None ELSE Some(SubSeq(s, r[1] + 2, Len(s)))

\* append that returns the string it built as it is
append_uncanonized(p, other) ==
    IF Len(other) = 0 THEN p ELSE p \o <<SEP>> \o other

\* append that pushes the part without the separator
append_no_sep(p, other) ==
    IF Len(other) = 0 THEN p ELSE Path_from(p \o other)

\* Path::append
append(p, other) ==
    IF Len(other) = 0 THEN p ELSE Path_from(p \o <<SEP>> \o other)

\* Path::levels
levels(s) == Len(parts(s))

\* utils::escape: esc put before every sep and every esc of s
RECURSIVE escape_from(_, _, _, _)
escape_from(s, esc, sep, i) ==
    IF i > Len(s) THEN <<>>
    ELSE (IF s[i] \in {sep, esc} THEN <<esc, s[i]>> ELSE <<s[i]>>)
         \o escape_from(s, esc, sep, i + 1)

\* Path::escape
escape(s) == escape_from(s, ESC, SEP, 1)

\* the for loop of unescape from index i on (String::pop of "" does nothing)
RECURSIVE UnescapeLoop(_, _, _)
UnescapeLoop(s, i, out) ==
    IF i >= Len(s) THEN out
    ELSE LET popped == IF is_escaped(s, SEP, ESC, i) /\ Len(out) > 0
                       THEN SubSeq(out, 1, Len(out) - 1) ELSE out
         IN UnescapeLoop(s, i + 1, Append(popped, s[i + 1]))

\* Path::unescape
unescape(s) ==
    IF ~\E i \in 0..(Len(s) - 1) : is_escaped(s, SEP, ESC, i)
    THEN s
    ELSE UnescapeLoop(s, 0, <<>>)

\* DirNames::next called until it returns None, from the state Path {cur, all,
\* base}: the items yielded, and whether a slice went out of range
RECURSIVE DirNamesNext(_, _, _, _)
DirNamesNext(cur, all, base, acc) ==
    IF base = Len(all) THEN [items |-> acc, panic |-> FALSE]
    ELSE LET r == find_sep(cur) IN
         IF r = None THEN DirNamesNext(cur, all, Len(all), Append(acc, all))
         ELSE LET b == base + r[1] + 1 IN
              IF b > Len(all) THEN [items |-> acc, panic |-> TRUE]
              ELSE DirNamesNext(SubSeq(all, b + 1, Len(all)), all, b,
                                Append(acc, SubSeq(all, 1, b - 1)))

\* Path::dirnames, collected
dirnames(s) ==
    IF s = <<"/">> THEN [items |-> << <<"/">> >>, panic |-> FALSE]
    ELSE DirNamesNext(s, s, 1, <<>>)

\* ------------------------------------------------- calls of the path algebra

\* the characters of the strings: the separator, the escape and another one
PathChars == {SEP, ESC, "a"}

\* the strings of at most n characters
StrsUpTo(n) == UNION {[1..k -> PathChars] : k \in 0..n}
Strs == StrsUpTo(MaxStrLen)
PartStrs == StrsUpTo(MaxPartLen)

\* a function of the path algebra was called on s (and part) and returned out
PathCalled(fn, s, part, out) ==
    /\ pathcall' = [fn |-> fn, s |-> s, part |-> part, out |-> out]
    /\ UNCHANGED <<cached, now, by_path, pc, batch, referrals, waiters, finished,
                   result, routed, iters, got, calls, lock, peer, facade>>

CallFrom ==
    /\ pathcall.fn = "none"
    /\ \E s \in Strs : PathCalled("from", s, <<>>, Path_from(s))

CallFromStr ==
    /\ pathcall.fn = "none"
    /\ \E s \in Strs : PathCalled("from_str", s, <<>>, Path_from_str(s))

CallDecode ==
    /\ pathcall.fn = "none"
    /\ \E s \in Strs : \E len \in 0..MaxStrLen :
          PathCalled("decode", s, <<>>, Path_decode(len, s))

CallParts ==
    /\ pathcall.fn = "none"
    /\ \E s \in Strs : PathCalled("parts", s, <<>>, parts(s))

\* the path of the doc tests, "/foo/bar/baz"
DocPath == <<"/", "f", "o", "o", "/", "b", "a", "r", "/", "b", "a", "z">>

CallLevels ==
    /\ pathcall.fn = "none"
    /\ \E s \in Strs \cup {DocPath} : PathCalled("levels", s, <<>>, levels(s))

CallDirname ==
    /\ pathcall.fn = "none"
    /\ \E s \in Strs : PathCalled("dirname", s, <<>>, dirname(s))

CallBasename ==
    /\ pathcall.fn = "none"
    /\ \E s \in Strs : PathCalled("basename", s, <<>>, basename(s))

CallDirnames ==
    /\ pathcall.fn = "none"
    /\ \E s \in Strs : PathCalled("dirnames", s, <<>>, dirnames(s))

CallFindSep ==
    /\ pathcall.fn = "none"
    /\ \E s \in Strs : PathCalled("find_sep", s, <<>>, find_sep(s))

CallRfindSep ==
    /\ pathcall.fn = "none"
    /\ \E s \in Strs : PathCalled("rfind_sep", s, <<>>, rfind_sep(s))

\* p.append(part), p being any Path (from_str and decode take any string)
CallAppend ==
    /\ pathcall.fn = "none"
    /\ \E p \in Strs : \E part \in PartStrs :
          PathCalled("append", p, part, append(p, part))

\* p.append(&Path::escape(part)), p being a Path made by Path::from
CallAppendEscaped ==
    /\ pathcall.fn = "none"
    /\ \E s \in Strs : \E part \in PartStrs :
          PathCalled("append_escaped", Path_from(s), part,
                     append(Path_from(s), escape(part)))

\* Path::root().append("/bar").append("//baz//////foo/")
CallAppendDoc ==
    /\ pathcall.fn = "none"
    /\ PathCalled("append_doc", <<"/", "b", "a", "r">>,
                  <<"/", "/", "b", "a", "z", "/", "/", "/", "/", "/", "/",
                    "f", "o", "o", "/">>,
                  append(append(root, <<"/", "b", "a", "r">>),
                         <<"/", "/", "b", "a", "z", "/", "/", "/", "/", "/",
                           "/", "f", "o", "o", "/">>))

NextPath ==
    \/ CallFrom \/ CallParts \/ CallLevels \/ CallDirname \/ CallBasename
    \/ CallDirnames \/ CallFindSep \/ CallRfindSep
    \/ CallAppend \/ CallAppendEscaped \/ CallAppendDoc
    \/ CallFromStr \/ CallDecode

\* one call of a function of the path algebra on any string
SpecPath == Init /\ [][NextPath]_vars

\* ==================================================================== claims

ReturnedOk == pc = "done" /\ result.tag = "Ok"

TerminalTypes == {"Resolved", "List", "Table", "Published", "Unpublished", "Error"}

\* some reply of the last iteration collected was a Referral
GotReferral == \E i \in DOMAIN got : got[i].type = "Referral"

RepliesOf(ws) == UNION {SeqRange(ws[w].resp) : w \in 1..Len(ws)}
HasReferral(ws) == \E pr \in RepliesOf(ws) : pr[2].type = "Referral"
NoFailure(ws) == \A w \in 1..Len(ws) : ws[w].st = "ok"

\* the (id, op) pairs the waiters ws were sent
Dispatched(ws) == UNION {SeqRange(ws[w].req) : w \in 1..Len(ws)}

\* what the call returns from the answered waiters taken in the order ws
ReturnOf(ws) == Outcome(Collected(ws), referrals)

\* ---------------------------------------------------------------------- C1
\* C1: a send call that returns Ok returns exactly one reply per operation of
\* the batch, and result[i] is the reply the backend paired with index i, which
\* answers batch[i].
C1_ResultMatchesBatch ==
    ReturnedOk =>
        /\ Len(result.val) = Len(batch)
        /\ \A i \in 1..Len(batch) :
              /\ (i - 1) \in DOMAIN got
              /\ result.val[i] = got[i - 1]
              /\ result.val[i].op = batch[i]

\* a call of two operations returned after a referral, the first answered by
\* the default backend and the second by the backend of /x
C1_Witness ==
    /\ ReturnedOk
    /\ Len(batch) = 2
    /\ iters = 2
    /\ result.val[1].by = None
    /\ result.val[2].by = Some(P_x)

\* ---------------------------------------------------------------------- C2
\* C2: no element of a vector send returns is a Referral; every one is a
\* terminal reply, whatever referrals were received in earlier iterations.
C2_NoReferralReturned ==
    ReturnedOk =>
        \A i \in 1..Len(result.val) : result.val[i].type \in TerminalTypes

\* a call that followed referrals twice and returned two replies, one an Error
C2_Witness ==
    /\ ReturnedOk
    /\ iters = 3
    /\ Len(result.val) = 2
    /\ result.val[1].type = "Resolved"
    /\ result.val[2].type = "Error"

\* ---------------------------------------------------------------------- C3
\* C3: when all sub-requests of an iteration are answered, what send returns
\* is the same for every order of the joined results, and an Ok vector is in
\* the order of the input batch.
Permuted(ws, perm) == [i \in 1..Len(ws) |-> ws[perm[i]]]

C3_OrderIndependent ==
    AllAnswered =>
        /\ \A perm \in Orders(1..Len(waiters)) :
              ReturnOf(Permuted(waiters, perm)) = ReturnOf(waiters)
        /\ ReturnOf(waiters).tag = "Ok" =>
              \A i \in 1..Len(ReturnOf(waiters).val) :
                  /\ i <= Len(batch)
                  /\ ReturnOf(waiters).val[i].op = batch[i]

\* the batch [/a, /x/1] fanned out with the sub-batch of /x dispatched first
\* and both backends having answered terminally
C3_Witness ==
    /\ AllAnswered
    /\ batch = <<Op("Resolve", P_a), Op("Resolve", P_x1)>>
    /\ Len(waiters) = 2
    /\ waiters[1].key = Some(P_x)
    /\ waiters[2].key = None
    /\ ReturnOf(waiters) =
          Ok(<<Terminal(None, batch[1]), Terminal(Some(P_x), batch[2])>>)

\* ---------------------------------------------------------------------- C4
\* C4: a call enters the loop at most MAX_REFERRALS + 1 times (the first
\* dispatch and at most MAX_REFERRALS iterations that follow referrals); it goes
\* round again only within that budget, and a Referral received in iteration
\* MAX_REFERRALS + 1 makes it return the maximum-referral-depth error.
C4_CollectStep ==
    (AllAnswered /\ pc' # "await") =>
        /\ pc' = "route" => iters <= MAX_REFERRALS
        /\ (iters = MAX_REFERRALS + 1 /\ NoFailure(waiters) /\ HasReferral(waiters))
              => (pc' = "done" /\ result' = Err(DepthError))

C4_BoundedReferrals ==
    /\ [](iters <= MAX_REFERRALS + 1)
    /\ [][C4_CollectStep]_vars

\* the call gave up in its 129th iteration
C4_Witness ==
    /\ pc = "done"
    /\ result = Err(DepthError)
    /\ iters = MAX_REFERRALS + 1

\* ---------------------------------------------------------------------- C5
\* C5 as stated: a call whose every iteration receives a Referral fails with
\* the depth error after exactly 128 iterations of the loop, and never
\* returns Ok.
C5_Original ==
    /\ (pc = "done" /\ result = Err(DepthError)) => iters = MAX_REFERRALS
    /\ ReturnedOk => ~GotReferral

\* C5 amended: such a call fails with the depth error after exactly 129
\* iterations of the loop (the first dispatch and 128 that follow referrals);
\* a call whose last iteration received a Referral never returns Ok.
C5_FailsAfter129Iterations ==
    /\ (pc = "done" /\ result = Err(DepthError)) =>
          /\ iters = MAX_REFERRALS + 1
          /\ referrals = MAX_REFERRALS + 1
          /\ GotReferral
    /\ ReturnedOk => ~GotReferral
    /\ (pc = "done" /\ GotReferral /\ result # Err(TransportError)) =>
          result = Err(DepthError)
    /\ (pc = "route" /\ iters > 0) => (GotReferral /\ referrals = iters)

\* the two-operation batch failed with the depth error, /x/1 referred for ever
C5_Witness ==
    /\ pc = "done"
    /\ result = Err(DepthError)
    /\ Len(batch) = 2
    /\ got[1].type = "Referral"
    /\ P_x \in DOMAIN by_path

\* ---------------------------------------------------------------------- C6
\* C6: when the completion handle of any sub-request of an iteration has
\* failed, the call returns the transport error and no reply vector, whatever
\* the other backends answered.
C6_CollectStep ==
    (AllAnswered /\ pc' # "await" /\ \E w \in 1..Len(waiters) : waiters[w].st = "err")
        => (pc' = "done" /\ result' = Err(TransportError))

C6_TransportFailureFailsCall == [][C6_CollectStep]_vars

\* the call failed although another backend of the iteration had answered
C6_Witness ==
    /\ pc = "done"
    /\ result = Err(TransportError)
    /\ \E i \in DOMAIN got : got[i].type = "Resolved"

\* ---------------------------------------------------------------------- C7
\* C7: every Referral(r) collected in an iteration that goes round again is in
\* the cache under r.path, with expiry now + r.ttl, when the iteration ends and
\* still at the next routing pass; the operation it answered is dispatched
\* again in the next iteration, to the backend of r.path (or of a longer cached
\* prefix) when r.path is a prefix of its path and the entry has not expired;
\* and when the call returns Ok, an operation answered by the backend of a
\* referral path p gets that reply as its result and p is in the cache.
C7_InstallStep ==
    (AllAnswered /\ pc' = "route") =>
        \A pr \in RepliesOf(waiters) :
            pr[2].type = "Referral" =>
                /\ pr[2].ref.path \in DOMAIN cached'
                /\ cached'[pr[2].ref.path].ref.path = pr[2].ref.path
                /\ cached'[pr[2].ref.path].exp = now + cached'[pr[2].ref.path].ref.ttl

C7_InstalledBeforeRouting ==
    (pc = "route" /\ iters > 0) =>
        \A i \in DOMAIN got :
            got[i].type = "Referral" =>
                /\ got[i].ref.path \in DOMAIN cached
                /\ cached[got[i].ref.path].ref \in
                      {got[j].ref : j \in {k \in DOMAIN got : got[k].type = "Referral"}}

C7_RedispatchStep ==
    (pc = "route" /\ pc' = "await") =>
        \A i \in DOMAIN got :
            got[i].type = "Referral" =>
                \E w \in 1..Len(waiters') :
                    /\ <<i, batch[i + 1]>> \in SeqRange(waiters'[w].req)
                    /\ (/\ path(batch[i + 1]) # None
                        /\ StartsWith(path(batch[i + 1])[1], got[i].ref.path)
                        /\ now < cached[got[i].ref.path].exp)
                          => /\ waiters'[w].key # None
                             /\ StartsWith(waiters'[w].key[1], got[i].ref.path)

C7_ReferredReplyReturned ==
    ReturnedOk =>
        \A i \in DOMAIN got :
            got[i].by # None =>
                /\ i + 1 <= Len(result.val)
                /\ result.val[i + 1] = got[i]
                /\ got[i].by[1] \in DOMAIN cached

C7_ReferralFollowed ==
    /\ [](C7_InstalledBeforeRouting /\ C7_ReferredReplyReturned)
    /\ [][C7_InstallStep /\ C7_RedispatchStep]_vars

\* the first call, [Resolve(/x/1)]: referred to /x by the default backend and
\* answered by the backend of /x in the second iteration
C7_Witness ==
    /\ ReturnedOk
    /\ calls = 1
    /\ iters = 2
    /\ batch = <<Op("Resolve", P_x1)>>
    /\ result.val = <<Terminal(Some(P_x), Op("Resolve", P_x1))>>
    /\ P_x \in DOMAIN cached
    /\ cached[P_x].ref = R_x

C8_RouteStep ==
    (pc = "route" /\ pc' = "await") =>
        /\ finished' = <<>>
        /\ Dispatched(waiters') = {<<i - 1, batch[i]>> : i \in 1..Len(batch)}

C8_ReturnedFromLastIteration ==
    ReturnedOk =>
        /\ Len(finished) = Len(batch)
        /\ \A k \in 1..Len(finished) :
              /\ finished[k][1] \in DOMAIN got
              /\ finished[k][2] = got[finished[k][1]]
              /\ finished[k][1] + 1 <= Len(result.val)
              /\ result.val[finished[k][1] + 1] = finished[k][2]

IsComponentPrefix(p, q) ==
    \/ p = q
    \/ /\ StartsWith(q, p)
       /\ \/ p = P_root
          \/ q[Len(p) + 1] = SEP

\* the bucket the claim gives the path q: the longest cached component prefix
LongestComponentPrefix(cache, q) ==
    LET m == {p \in DOMAIN cache : IsComponentPrefix(p, q)} IN
    IF m = {} THEN None
    ELSE Some(CHOOSE p \in m : \A p2 \in m : Len(p2) <= Len(p))

\* C9: route_batch on a cache of unexpired entries puts every operation in the
\* bucket of the longest cached key that is a component prefix of its path, and
\* in the None bucket when there is none.
C9_RouteStep ==
    (/\ routed = NoRoute
     /\ routed' # NoRoute
     /\ \A p \in DOMAIN cached : now < cached[p].exp) =>
        \A key \in DOMAIN routed'.batches :
            \A pr \in SeqRange(routed'.batches[key]) :
                key = LongestComponentPrefix(cached, pr[2].arg)

C9_LongestComponentPrefixRouted == [][C9_RouteStep]_vars

\* --------------------------------------------------------------------- C10
\* C10: no operation is in the bucket of a key that is a prefix of its path
\* only as a string, not at a component boundary.
C10_BoundaryRespected ==
    \A key \in DOMAIN routed.batches :
        key # None =>
            \A pr \in SeqRange(routed.batches[key]) :
                IsComponentPrefix(key[1], pr[2].arg)

\* --------------------------------------------------------------------- C11
\* the key the descending scan of route_batch stops at for the path q: the
\* longest cached key that q starts with
MatchedKey(cache, q) ==
    LET m == {p \in DOMAIN cache : StartsWith(q, p)} IN
    IF m = {} THEN None
    ELSE Some(CHOOSE p \in m : \A p2 \in m : Len(p2) <= Len(p))

\* C11: route_batch puts an operation in bucket Some(p) only while
\* now < expiry(p), and an expired entry found as the matching prefix of an
\* operation is gone from the cache when route_batch returns, the operation
\* being in the None bucket.
C11_RouteStep ==
    (routed = NoRoute /\ routed' # NoRoute) =>
        /\ \A key \in DOMAIN routed'.batches :
              key # None =>
                  /\ key[1] \in DOMAIN cached
                  /\ now < cached[key[1]].exp
        /\ \A i \in 1..Len(batch') :
              path(batch'[i]) # None =>
                  LET m == MatchedKey(cached, path(batch'[i])[1]) IN
                  (m # None /\ now >= cached[m[1]].exp) =>
                      /\ m[1] \notin DOMAIN cached'
                      /\ None \in DOMAIN routed'.batches
                      /\ <<i - 1, batch'[i]>> \in SeqRange(routed'.batches[None])

C11_ExpiredNeverUsed == [][C11_RouteStep]_vars

\* /a was added with ttl 0 and /a/b routed at the same instant: /a/b went to
\* the None bucket and /a was evicted
C11_Witness ==
    /\ now = 0
    /\ batch = <<Op("Resolve", P_ab)>>
    /\ routed.gc = <<P_a>>
    /\ routed.batches = (None :> <<<<0, Op("Resolve", P_ab)>>>>)
    /\ P_a \notin DOMAIN cached

\* --------------------------------------------------------------------- C12
\* C12: an operation without a path (Clear, Heartbeat) is routed to the None
\* bucket and dispatched on the default connection, whatever the cache holds.
C12_PathlessToDefault ==
    /\ \A key \in DOMAIN routed.batches :
          \A pr \in SeqRange(routed.batches[key]) :
              pr[2].kind \in {"Clear", "Heartbeat"} => key = None
    /\ \A w \in 1..Len(waiters) :
          \A pr \in SeqRange(waiters[w].req) :
              pr[2].kind \in {"Clear", "Heartbeat"} =>
                  /\ waiters[w].key = None
                  /\ waiters[w].conn = DefaultConn

\* [Publish(/x/1), Clear] dispatched while /x is cached and unexpired: the
\* Publish went to the connection of /x, the Clear to the default one
C12_Witness ==
    /\ pc = "await"
    /\ batch = <<Op("Publish", P_x1), Op("Clear", <<>>)>>
    /\ P_x \in DOMAIN cached
    /\ \E w \in 1..Len(waiters) :
          /\ waiters[w].key = Some(P_x)
          /\ waiters[w].req = <<<<0, Op("Publish", P_x1)>>>>
    /\ \E w \in 1..Len(waiters) :
          /\ waiters[w].key = None
          /\ waiters[w].conn = DefaultConn
          /\ waiters[w].req = <<<<1, Op("Clear", <<>>)>>>>

\* --------------------------------------------------------------------- C13
\* C13: in every sub-batch route_batch produced, the indices ascend strictly
\* and each is the 0-based position of its operation in the input batch.
C13_AscendingIndices ==
    \A key \in DOMAIN routed.batches :
        LET s == routed.batches[key] IN
        /\ \A j, k \in 1..Len(s) : j < k => s[j][1] < s[k][1]
        /\ \A j \in 1..Len(s) :
              /\ s[j][1] + 1 \in 1..Len(batch)
              /\ s[j][2] = batch[s[j][1] + 1]

\* [/a/c, /a/b] routed entirely to the backend of /a arrives as
\* [(0, /a/c), (1, /a/b)]
C13_Witness ==
    /\ batch = <<Op("Resolve", P_ac), Op("Resolve", P_ab)>>
    /\ DOMAIN routed.batches = {Some(P_a)}
    /\ routed.batches[Some(P_a)] =
          <<<<0, Op("Resolve", P_ac)>>, <<1, Op("Resolve", P_ab)>>>>

\* --------------------------------------------------------------------- C14
\* C14 as stated: by_path holds at most MAX_REFERRALS entries in every
\* reachable state.
C14_Original == Cardinality(DOMAIN by_path) <= MAX_REFERRALS

\* C14 amended: a routing pass empties by_path only when it finds more than
\* MAX_REFERRALS entries, and then adds one entry per bucket Some(p) that has
\* no connection yet; no other step changes by_path.  by_path so holds at most
\* MAX_REFERRALS entries plus the length of a batch, and can hold more than
\* MAX_REFERRALS.
C14_Step ==
    /\ (pc = "route" /\ pc' = "await") =>
          LET kept == IF Cardinality(DOMAIN by_path) > MAX_REFERRALS
                      THEN {} ELSE DOMAIN by_path
              keys == {k[1] : k \in DOMAIN routed'.batches \ {None}}
          IN /\ DOMAIN by_path' = kept \cup keys
             /\ Cardinality(DOMAIN by_path') <= MAX_REFERRALS + Len(batch)
    /\ ~(pc = "route" /\ pc' = "await") => by_path' = by_path

C14_BoundedAfterReset ==
    /\ [](Cardinality(DOMAIN by_path) <= MAX_REFERRALS + MaxBatch)
    /\ [][C14_Step]_vars

\* by_path holds MAX_REFERRALS + 2 connections after a routing pass that found
\* MAX_REFERRALS of them
C14_Witness ==
    /\ pc = "await"
    /\ Cardinality(DOMAIN by_path) = MAX_REFERRALS + 2

\* --------------------------------------------------------------------- C15
\* C15: the router's referral cache holds at most MAX_REFERRALS entries in
\* every reachable state.
C15_CacheBounded == Cardinality(DOMAIN cached) <= MAX_REFERRALS

\* --------------------------------------------------------------------- C16
PeerAllAnswered ==
    /\ peer.pc = "await"
    /\ \A w \in 1..Len(peer.waiters) : peer.waiters[w].st # "pending"

\* C16: no caller holds the lock while it awaits its backends: the lock is
\* free whenever a caller awaits, so the routing pass of the other can run.
C16_LockFreeWhileAwaiting ==
    /\ pc = "await" => lock # "main"
    /\ peer.pc = "await" => lock # "peer"
    /\ (pc = "await" \/ peer.pc = "await") => lock = Free

\* the second caller completed a routing pass while the first was awaiting a
\* backend that has still not answered
C16_Witness ==
    /\ pc = "await"
    /\ \E w \in 1..Len(waiters) : waiters[w].st = "pending"
    /\ peer.pc = "await"
    /\ peer.during = "await"

\* --------------------------------------------------------------------- C17
\* the operations ops, routed from the cache of the state into the waiters ws,
\* went to the backend of their longest cached prefix when it is unexpired
RoutedByCache(ops, ws) ==
    \A i \in 1..Len(ops) :
        path(ops[i]) # None =>
            LET m == MatchedKey(cached, path(ops[i])[1]) IN
            (m # None /\ now < cached[m[1]].exp) =>
                \E w \in 1..Len(ws) :
                    /\ ws[w].key = m
                    /\ <<i - 1, ops[i]>> \in SeqRange(ws[w].req)

\* the referrals among the replies ws are in the cache after the step
InstalledFrom(ws) ==
    \A pr \in RepliesOf(ws) :
        pr[2].type = "Referral" =>
            /\ pr[2].ref.path \in DOMAIN cached'
            /\ <<pr[2].ref.path, cached'[pr[2].ref.path].exp>> \in InstalledBy(ws, now)

\* C17 as stated: a routing pass of the first caller that starts after the
\* second caller installed r and before r's expiry sends an operation whose
\* longest cached prefix is r.path to the backend of r.path.
C17_OriginalStep ==
    (pc = "route" /\ pc' = "await") =>
        \A e \in peer.installed :
            now < e[2] =>
                \A i \in 1..Len(batch) :
                    MatchedKey(cached, path(batch[i])[1]) = Some(e[1]) =>
                        \E w \in 1..Len(waiters') :
                            /\ waiters'[w].key = Some(e[1])
                            /\ <<i - 1, batch[i]>> \in SeqRange(waiters'[w].req)

C17_Original == [][C17_OriginalStep]_vars

\* C17 amended: a referral a call collects is in the shared cache when the
\* collecting step ends; an unexpired entry stays as it is until a call
\* collects another referral for the same path, which replaces it; and every
\* routing pass of either caller sends an operation to the backend of its
\* longest cached prefix when that entry is unexpired.
C17_Step ==
    /\ (AllAnswered /\ pc' # "await" /\ NoFailure(waiters)) => InstalledFrom(waiters)
    /\ (PeerAllAnswered /\ peer'.pc # "await" /\ NoFailure(peer.waiters))
          => InstalledFrom(peer.waiters)
    /\ \A p \in DOMAIN cached :
          now < cached[p].exp =>
              /\ p \in DOMAIN cached'
              /\ cached'[p] # cached[p] =>
                    \/ AllAnswered /\ pc' # "await"
                          /\ \E e \in InstalledBy(waiters, now) : e[1] = p
                    \/ PeerAllAnswered /\ peer'.pc # "await"
                          /\ \E e \in InstalledBy(peer.waiters, now) : e[1] = p
    /\ (pc = "route" /\ pc' = "await") => RoutedByCache(batch, waiters')
    /\ (peer.pc = "route" /\ peer'.pc = "await")
          => RoutedByCache(peer.batch, peer'.waiters)

C17_VisibleUntilReplaced == [][C17_Step]_vars

\* the second caller's first routing pass sent /x/2 straight to the backend of
\* /x, which the first caller's call had installed
C17_Witness ==
    /\ peer.pc = "await"
    /\ peer.referrals = 0
    /\ peer.installed = {}
    /\ Len(peer.waiters) = 1
    /\ peer.waiters[1].key = Some(P_x)
    /\ GotReferral

\* --------------------------------------------------------------------- C18
\* every reply of the send result the facade was given has the type ty
AllOfType(ty) ==
    \A i \in 1..Len(facade.from.val) : facade.from.val[i].type = ty

\* send gave the facade one reply per path
OnePerPath ==
    /\ facade.from.tag = "Ok"
    /\ Len(facade.from.val) = Len(facade.paths)

\* C18: resolve(paths) returns Ok(v) exactly when send returned one reply per
\* path and every reply is Resolved, v[i] then being the resolution carried by
\* reply i, which answers Resolve(paths[i]); otherwise it returns an error.
C18_ResolveChecksReplies ==
    facade.name = "resolve" =>
        /\ facade.out.tag \in {"Ok", "Err"}
        /\ facade.out.tag = "Ok" <=> (OnePerPath /\ AllOfType("Resolved"))
        /\ facade.out.tag = "Ok" =>
              /\ Len(facade.out.val) = Len(facade.paths)
              /\ \A i \in 1..Len(facade.paths) :
                    /\ facade.out.val[i] = Payload(facade.from.val[i])
                    /\ facade.out.val[i].op = Op("Resolve", facade.paths[i])

\* resolve of two paths failed on a second reply that is not Resolved
C18_Witness ==
    /\ facade.name = "resolve"
    /\ Len(facade.paths) = 2
    /\ OnePerPath
    /\ facade.from.val[1].type = "Resolved"
    /\ facade.from.val[2].type = "Error"
    /\ facade.out.tag = "Err"

\* --------------------------------------------------------------------- C19
\* C19: list(path) returns Ok(paths) exactly when send returned one reply and
\* it is a List, paths being what it carries; no reply, two or more replies,
\* or a single reply that is not a List make it return an error.
C19_ListChecksReply ==
    facade.name = "list" =>
        /\ facade.out.tag \in {"Ok", "Err"}
        /\ facade.out.tag = "Ok" <=>
              /\ facade.from.tag = "Ok"
              /\ Len(facade.from.val) = 1
              /\ facade.from.val[1].type = "List"
        /\ facade.out.tag = "Ok" => facade.out.val = Payload(facade.from.val[1])

\* list was given two List replies and failed
C19_Witness ==
    /\ facade.name = "list"
    /\ facade.from.tag = "Ok"
    /\ Len(facade.from.val) = 2
    /\ AllOfType("List")
    /\ facade.out.tag = "Err"

\* --------------------------------------------------------------------- C20
\* the reply a write facade expects, and the request kind it sends
Expected(name) == IF name \in {"publish", "publish_default"}
                  THEN "Published" ELSE "Unpublished"
KindOf(name) == CASE name = "publish" -> "Publish"
                  [] name = "publish_default" -> "PublishDefault"
                  [] name = "unpublish" -> "Unpublish"
                  [] OTHER -> "Clear"

\* C20: publish, publish_default and unpublish return Ok(()) exactly when send
\* returned one reply per path and every reply is the expected one; clear
\* exactly when the single reply is Unpublished.  When the replies are one per
\* path and some differ, the error names the request and the reply at the
\* first index that differs.
C20_WriteFacadesCheckReplies ==
    /\ facade.name \in {"publish", "publish_default", "unpublish"} =>
          /\ facade.out.tag \in {"Ok", "Err"}
          /\ facade.out = Ok(<<>>) <=> (OnePerPath /\ AllOfType(Expected(facade.name)))
          /\ (OnePerPath /\ ~AllOfType(Expected(facade.name))) =>
                \E i \in 1..Len(facade.paths) :
                    /\ facade.from.val[i].type # Expected(facade.name)
                    /\ \A j \in 1..(i - 1) :
                          facade.from.val[j].type = Expected(facade.name)
                    /\ facade.out.tag = "Err"
                    /\ facade.out.val =
                          <<Op(KindOf(facade.name), facade.paths[i]), facade.from.val[i]>>
    /\ facade.name = "clear" =>
          /\ facade.out.tag \in {"Ok", "Err"}
          /\ facade.out = Ok(<<>>) <=>
                /\ facade.from.tag = "Ok"
                /\ Len(facade.from.val) = 1
                /\ facade.from.val[1].type = "Unpublished"

\* publish of two paths answered [Published, Unpublished] fails naming the
\* request and the reply at index 1
C20_Witness ==
    /\ facade.name = "publish"
    /\ Len(facade.paths) = 2
    /\ OnePerPath
    /\ facade.from.val[1].type = "Published"
    /\ facade.from.val[2].type = "Unpublished"
    /\ facade.out.tag = "Err"
    /\ facade.out.val = <<Op("Publish", facade.paths[2]), facade.from.val[2]>>

\* --------------------------------------------------------------------- C21
\* C21: canonicalisation is idempotent: for every string s, Path::from applied
\* to the string of Path::from(s) gives a path equal to Path::from(s).
C21_FromIdempotent ==
    pathcall.fn = "from" => Path_from(pathcall.out) = pathcall.out

\* Path::from("//a/") gave "/a"
C21_Witness ==
    /\ pathcall.fn = "from"
    /\ pathcall.s = <<"/", "/", "a", "/">>
    /\ pathcall.out = <<"/", "a">>

\* --------------------------------------------------------------------- C22
\* how many backslashes in a row stand just before position i of s
BackslashesBefore(s, i) ==
    Cardinality({j \in 1..(i - 1) : \A k \in j..(i - 1) : s[k] = "\\"})

\* position i of s holds a separator that is not escaped
Boundary(s, i) == s[i] = "/" /\ BackslashesBefore(s, i) % 2 = 0

\* the k-th smallest element of the set of numbers B
Nth(B, k) == CHOOSE b \in B : Cardinality({c \in B : c < b}) = k - 1

\* the components of s: what lies between two successive unescaped separators,
\* before the first and after the last
Pieces(s) ==
    LET B == {0} \cup {i \in 1..Len(s) : Boundary(s, i)} \cup {Len(s) + 1} IN
    [k \in 1..(Cardinality(B) - 1) |->
        SubSeq(s, Nth(B, k) + 1, Nth(B, k + 1) - 1)]

IsNonEmpty(p) == p # <<>>
NonEmptyPieces(s) == SelectSeq(Pieces(s), IsNonEmpty)

\* r is "/", or begins with '/', has no empty component and no trailing
\* unescaped '/'
CanonicalAbsolute(r) ==
    \/ r = <<"/">>
    \/ /\ Len(r) > 1
       /\ r[1] = "/"
       /\ ~Boundary(r, Len(r))
       /\ \A i \in 1..(Len(r) - 1) : ~(Boundary(r, i) /\ Boundary(r, i + 1))

\* C22: for every string s that begins with '/', Path::from(s) is in canonical
\* form ("/", or a string beginning with '/' with no empty component and no
\* trailing unescaped '/'), and its non-empty escape-aware components are
\* those of s, in order.
C22_FromIsCanonical ==
    (pathcall.fn = "from" /\ Len(pathcall.s) > 0 /\ pathcall.s[1] = "/") =>
        /\ CanonicalAbsolute(pathcall.out)
        /\ NonEmptyPieces(pathcall.out) = NonEmptyPieces(pathcall.s)

\* Path::from("//\/") gave "/\/", the one component \/ kept whole
C22_Witness ==
    /\ pathcall.fn = "from"
    /\ pathcall.s = <<"/", "/", "\\", "/">>
    /\ pathcall.out = <<"/", "\\", "/">>
    /\ NonEmptyPieces(pathcall.out) = << <<"\\", "/">> >>

\* --------------------------------------------------------------------- C23
\* C23 as stated: for every canonical path p other than "/" and "", dirname(p)
\* and basename(p) recombine to p, single-component paths such as /foo
\* included: append(dirname(p), basename(p)) = p.
C23_Original ==
    (/\ pathcall.fn = "dirname"
     /\ CanonicalAbsolute(pathcall.s)
     /\ pathcall.s # <<"/">>) =>
        /\ pathcall.out # None
        /\ basename(pathcall.s) # None
        /\ append(pathcall.out[1], basename(pathcall.s)[1]) = pathcall.s

\* C23 amended: for every canonical path p of at least two components,
\* dirname(p) and basename(p) are both Some and append(dirname(p), basename(p))
\* = p, also when the last component contains an escaped separator; for a
\* canonical path of one component, such as /foo, dirname(p) is None.
C23_RecombineBelowTopLevel ==
    (/\ pathcall.fn = "dirname"
     /\ CanonicalAbsolute(pathcall.s)
     /\ pathcall.s # <<"/">>) =>
        IF Len(NonEmptyPieces(pathcall.s)) >= 2
        THEN /\ pathcall.out # None
             /\ basename(pathcall.s) # None
             /\ append(pathcall.out[1], basename(pathcall.s)[1]) = pathcall.s
        ELSE pathcall.out = None

\* dirname("/a/\/") gave "/a", and basename gives \/
C23_Witness ==
    /\ pathcall.fn = "dirname"
    /\ pathcall.s = <<"/", "a", "/", "\\", "/">>
    /\ pathcall.out = Some(<<"/", "a">>)
    /\ basename(pathcall.s) = Some(<<"\\", "/">>)

\* --------------------------------------------------------------------- C24
\* "/" and then every prefix of the canonical path s that ends just before an
\* unescaped separator or at the end of s, by increasing length
ComponentPrefixes(s) ==
    IF s = <<"/">> THEN << <<"/">> >>
    ELSE LET B == {i \in 2..Len(s) : Boundary(s, i)} \cup {Len(s) + 1} IN
         << <<"/">> >> \o [k \in 1..Cardinality(B) |-> SubSeq(s, 1, Nth(B, k) - 1)]

\* C24: for every canonical absolute path p, dirnames(p) yields "/" first, then
\* every component-aligned prefix of p by increasing length, ending with p
\* itself: levels(p) + 1 items for p other than "/", and just "/" for "/",
\* whatever the length of the components.
C24_DirnamesAllPrefixes ==
    (pathcall.fn = "dirnames" /\ CanonicalAbsolute(pathcall.s)) =>
        /\ ~pathcall.out.panic
        /\ pathcall.out.items = ComponentPrefixes(pathcall.s)
        /\ pathcall.s # <<"/">> =>
              Len(pathcall.out.items) = levels(pathcall.s) + 1

\* --------------------------------------------------------------------- C25
\* C25 as stated: for every path p and string part, append(p, part) equals the
\* canonicalisation of the string p + "/" + part.
C25_Original ==
    pathcall.fn = "append" =>
        pathcall.out = canonize(pathcall.s \o <<"/">> \o pathcall.part)

\* C25 amended: for every path p and every non-empty string part, append(p,
\* part) equals the canonicalisation of the string p + "/" + part, and
\* append(p, "") is p itself; appending to a canonical absolute path yields a
\* canonical absolute path, and root.append("/bar").append("//baz//////foo/")
\* is "/bar/baz/foo".
C25_AppendCanonicalises ==
    /\ pathcall.fn = "append" =>
          /\ IF pathcall.part # <<>>
             THEN /\ pathcall.out =
                        canonize(pathcall.s \o <<"/">> \o pathcall.part)
                  /\ Len(pathcall.s) > 0 /\ pathcall.s[1] = "/" =>
                        NonEmptyPieces(pathcall.out) =
                            NonEmptyPieces(pathcall.s \o <<"/">> \o
                                           pathcall.part)
             ELSE pathcall.out = pathcall.s
          /\ CanonicalAbsolute(pathcall.s) => CanonicalAbsolute(pathcall.out)
    /\ pathcall.fn = "append_doc" =>
          pathcall.out = <<"/", "b", "a", "r", "/", "b", "a", "z",
                           "/", "f", "o", "o">>

\* "/a".append("//") gave "/a": the part held only empty components
C25_Witness ==
    /\ pathcall.fn = "append"
    /\ pathcall.s = <<"/", "a">>
    /\ pathcall.part = <<"/", "/">>
    /\ pathcall.out = <<"/", "a">>

\* --------------------------------------------------------------------- C26
\* the components of s without the empty one before a leading '/', none for "/"
ComponentsOf(s) ==
    IF s = <<"/">> THEN <<>>
    ELSE IF Len(s) > 0 /\ s[1] = "/" THEN Tail(Pieces(s))
    ELSE Pieces(s)

\* C26: parts(p) splits p at the separators preceded by an even number of
\* backslashes and nowhere else, drops the empty component before a leading
\* '/', and yields nothing for "/"; levels(p) is the number of items parts(p)
\* yields: 3 for /foo/bar/baz, 0 for /.
C26_PartsSplitAtUnescaped ==
    /\ pathcall.fn = "parts" => pathcall.out = ComponentsOf(pathcall.s)
    /\ pathcall.fn = "levels" =>
          /\ pathcall.out = Len(ComponentsOf(pathcall.s))
          /\ pathcall.s = <<"/">> => pathcall.out = 0
          /\ pathcall.s = DocPath => pathcall.out = 3

\* parts("/\//a") gave [\/, a]
C26_Witness ==
    /\ pathcall.fn = "parts"
    /\ pathcall.s = <<"/", "\\", "/", "/", "a">>
    /\ pathcall.out = << <<"\\", "/">>, <<"a">> >>

\* --------------------------------------------------------------------- C27
\* the 0-based indices of the unescaped separators of s
UnescapedSeps(s) == {i - 1 : i \in {j \in 1..Len(s) : Boundary(s, j)}}

\* C27: for every string s, find_sep(s) returns the index of the first '/' of s
\* that is not preceded by an odd number of backslashes, and None only when s
\* has no such separator: an escaped separator earlier in s does not hide a
\* later unescaped one.
C27_FindSepFirstUnescaped ==
    pathcall.fn = "find_sep" =>
        IF UnescapedSeps(pathcall.s) = {}
        THEN pathcall.out = None
        ELSE pathcall.out = Some(Nth(UnescapedSeps(pathcall.s), 1))

\* --------------------------------------------------------------------- C28
\* C28: for every string s, rfind_sep(s) returns the index of the last '/' of s
\* that is not preceded by an odd number of backslashes, and None only when s
\* has no such separator; so dirname("/"), dirname of a single-component
\* absolute path, basename("/") and basename("") are None.
C28_RfindSepLastUnescaped ==
    /\ pathcall.fn = "rfind_sep" =>
          IF UnescapedSeps(pathcall.s) = {}
          THEN pathcall.out = None
          ELSE pathcall.out =
                  Some(Nth(UnescapedSeps(pathcall.s),
                           Cardinality(UnescapedSeps(pathcall.s))))
    /\ pathcall.fn = "dirname" =>
          /\ pathcall.s = <<"/">> => pathcall.out = None
          /\ (CanonicalAbsolute(pathcall.s) /\ Len(Pieces(pathcall.s)) = 2) =>
                pathcall.out = None
    /\ (pathcall.fn = "basename" /\ pathcall.s \in {<<"/">>, <<>>}) =>
          pathcall.out = None

\* rfind_sep("/a/\/") gave 2, passing over the escaped separator at 4
C28_Witness ==
    /\ pathcall.fn = "rfind_sep"
    /\ pathcall.s = <<"/", "a", "/", "\\", "/">>
    /\ pathcall.out = Some(2)

\* --------------------------------------------------------------------- C29
\* C29: for every canonical absolute path p and every non-empty string s,
\* appending the escaped s adds exactly one level, levels(append(p, escape(s)))
\* = levels(p) + 1, and the basename of the result unescapes to s, whatever
\* separators and backslashes s or p contain.
C29_EscapedAppendAddsOneLevel ==
    (/\ pathcall.fn = "append_escaped"
     /\ CanonicalAbsolute(pathcall.s)
     /\ pathcall.part # <<>>) =>
        /\ levels(pathcall.out) = levels(pathcall.s) + 1
        /\ basename(pathcall.out) # None
        /\ unescape(basename(pathcall.out)[1]) = pathcall.part

\* --------------------------------------------------------------------- C30
\* where index i is in the sub-batches: the <<key, position>> of the pairs
\* whose id is i
PlacesOf(i) ==
    {kj \in UNION {{<<key, j>> : j \in 1..Len(routed.batches[key])} :
                     key \in DOMAIN routed.batches} :
        routed.batches[kj[1]][kj[2]][1] = i}

\* C30: for every batch of N operations and every cache state, the sub-batches
\* route_batch returns partition the batch: every index 0..N-1 is in exactly
\* one sub-batch, paired with the operation at that position, no other index
\* is in any, and there is one sub-batch, not empty, per bucket key.
C30_SubBatchesPartition ==
    /\ \A i \in 0..(Len(batch) - 1) :
          /\ Cardinality(PlacesOf(i)) = 1
          /\ \A kj \in PlacesOf(i) :
                routed.batches[kj[1]][kj[2]][2] = batch[i + 1]
    /\ \A key \in DOMAIN routed.batches :
          \A j \in 1..Len(routed.batches[key]) :
              routed.batches[key][j][1] \in 0..(Len(batch) - 1)
    /\ \A key \in DOMAIN routed.batches : Len(routed.batches[key]) > 0

\* [/a/b, /d] with /a cached: a batch split between the backend of /a
\* and the default backend
C30_Witness ==
    /\ batch = <<Op("Resolve", P_ab), Op("Resolve", P_d)>>
    /\ DOMAIN routed.batches = {Some(P_a), None}
    /\ routed.batches[Some(P_a)] = << <<0, Op("Resolve", P_ab)>> >>
    /\ routed.batches[None] = << <<1, Op("Resolve", P_d)>> >>

\* --------------------------------------------------------------------- C31
\* C31: when the longest cached key an operation's path starts with is
\* expired, route_batch puts the operation in the None bucket and scans no
\* further: a shorter cached prefix that is still unexpired is not the
\* operation's bucket, and its entry is in the cache unchanged afterwards.
C31_RouteStep ==
    (routed = NoRoute /\ routed' # NoRoute) =>
        \A i \in 1..Len(batch') :
            path(batch'[i]) # None =>
                LET q == path(batch'[i])[1]
                    m == MatchedKey(cached, q)
                IN (m # None /\ now >= cached[m[1]].exp) =>
                      /\ None \in DOMAIN routed'.batches
                      /\ <<i - 1, batch'[i]>> \in SeqRange(routed'.batches[None])
                      /\ \A p \in DOMAIN cached :
                            (StartsWith(q, p) /\ p # m[1] /\ now < cached[p].exp) =>
                                /\ p \in DOMAIN cached'
                                /\ cached'[p] = cached[p]
                                /\ Some(p) \in DOMAIN routed'.batches =>
                                      <<i - 1, batch'[i]>>
                                          \notin SeqRange(routed'.batches[Some(p)])

C31_ExpiredLongestStopsScan == [][C31_RouteStep]_vars

\* /a/b/c routed while /a/b is cached and expired and /a cached and unexpired:
\* the operation is in the None bucket, /a/b is evicted and /a is still cached
C31_Witness ==
    /\ batch = <<Op("Resolve", P_abc)>>
    /\ routed.gc = <<P_ab>>
    /\ routed.batches = (None :> <<<<0, Op("Resolve", P_abc)>>>>)
    /\ P_ab \notin DOMAIN cached
    /\ P_a \in DOMAIN cached
    /\ now < cached[P_a].exp

\* --------------------------------------------------------------------- C32
\* the paths get_referral is asked for
LookupPaths == {P_root, P_a, P_ab, P_abc, P_ac, P_d, P_foo, P_foobar}

\* C32: add_referral(r) at time now leaves the cache with one entry for
\* r.path, holding r and the expiry now + r.ttl whatever was cached under
\* r.path before, and with every other key as it was; get_referral(p) on the
\* result is r exactly when p = r.path, whether or not the entry is expired.
C32_AddReferralFrame ==
    \A r \in RouterRefs :
        LET after == add_referral(cached, now, r) IN
        /\ DOMAIN after = DOMAIN cached \cup {r.path}
        /\ after[r.path] = [exp |-> now + r.ttl, ref |-> r]
        /\ \A p \in DOMAIN cached : p # r.path => after[p] = cached[p]
        /\ \A p \in LookupPaths :
              (get_referral(after, p) = Some(r)) <=> (p = r.path)

\* at time 1 the referral for /a holds ttl 0 and expiry 1, so it is already
\* expired and get_referral still returns it, while /a/b, added at time 0 with
\* ttl 1, is cached as it was
C32_Witness ==
    /\ now = 1
    /\ routed = NoRoute
    /\ P_a \in DOMAIN cached
    /\ cached[P_a] = [exp |-> 1, ref |-> Ref(P_a, 0, "A")]
    /\ P_ab \in DOMAIN cached
    /\ cached[P_ab] = [exp |-> 1, ref |-> Ref(P_ab, 1, "A")]
    /\ get_referral(cached, P_a) = Some(Ref(P_a, 0, "A"))
    /\ get_referral(cached, P_abc) = None

\* --------------------------------------------------------------------- C33
\* the cached keys route_batch finds as the matching prefix of an operation
MatchedBy(cache, ops) ==
    {p \in DOMAIN cache :
        \E i \in 1..Len(ops) :
            /\ path(ops[i]) # None
            /\ MatchedKey(cache, path(ops[i])[1]) = Some(p)}

\* C33: route_batch changes the cache only by removing the entries that are
\* expired at the call's now and were found as the matching prefix of some
\* operation of the batch: it adds no key, changes no entry it keeps, keeps
\* every unexpired entry and every expired entry no operation matched, and the
\* batch send routes is the same after the routing pass.
C33_RouteStep ==
    (routed = NoRoute /\ routed' # NoRoute) =>
        /\ DOMAIN cached' \subseteq DOMAIN cached
        /\ \A p \in DOMAIN cached' : cached'[p] = cached[p]
        /\ DOMAIN cached \ DOMAIN cached' =
              {p \in MatchedBy(cached, batch') : now >= cached[p].exp}
        /\ pc = "route" => batch' = batch

C33_RouteBatchFrame == [][C33_RouteStep]_vars

\* /a/b/c routed at time 1 while /a and /a/b, both expired, and /foo are
\* cached: /a/b, the matching prefix, is evicted, and /a, expired but not
\* matched, and /foo are still cached
C33_Witness ==
    /\ now = 1
    /\ batch = <<Op("Resolve", P_abc)>>
    /\ routed.gc = <<P_ab>>
    /\ DOMAIN cached = {P_a, P_foo}
    /\ now >= cached[P_a].exp

\* --------------------------------------------------------------------- C34
\* C34: a routing pass of send that finds more than MAX_REFERRALS entries in
\* by_path drops every one of them before routing: by_path then holds only the
\* connections this pass opened, each from the referral cached under its path.
\* The reset does not touch the router cache, which changes only by the
\* evictions of the routing itself, and the None bucket still goes to the
\* default connection.  A pass that finds MAX_REFERRALS entries or fewer keeps
\* every connection it found.
C34_Step ==
    (pc = "route" /\ pc' = "await") =>
        /\ Cardinality(DOMAIN by_path) > MAX_REFERRALS =>
              /\ DOMAIN by_path' = {k[1] : k \in DOMAIN routed'.batches \ {None}}
              /\ \A p \in DOMAIN by_path' :
                    /\ p \in DOMAIN cached
                    /\ by_path'[p] = NewConn(cached[p].ref)
              /\ cached' = [p \in DOMAIN cached \ SeqRange(routed'.gc) |-> cached[p]]
              /\ \A w \in 1..Len(waiters') :
                    waiters'[w].key = None => waiters'[w].conn = DefaultConn
        /\ Cardinality(DOMAIN by_path) <= MAX_REFERRALS =>
              \A p \in DOMAIN by_path :
                  /\ p \in DOMAIN by_path'
                  /\ by_path'[p] = by_path[p]

C34_OverflowResetsByPathOnly == [][C34_Step]_vars

\* the first routing pass of a call that found more than MAX_REFERRALS
\* connections: by_path is empty, the cache still holds more than
\* MAX_REFERRALS referrals, and the batch waits on the default connection
C34_Witness ==
    /\ pc = "await"
    /\ iters = 1
    /\ by_path = EmptyMap
    /\ Cardinality(DOMAIN cached) > MAX_REFERRALS
    /\ Len(waiters) = 1
    /\ waiters[1].conn = DefaultConn

\* --------------------------------------------------------------------- C35
\* the connections a routing pass finds once the overflow test has run
KeptPaths ==
    IF Cardinality(DOMAIN by_path) > MAX_REFERRALS THEN {} ELSE DOMAIN by_path

\* C35: a routing pass opens a connection for the referral path p only when it
\* routed a sub-batch to Some(p) and found no connection for p; a connection
\* it found is kept as it is and is the one the sub-batch routed to its path
\* is sent on, whichever send call stored it; no other step changes by_path.
\* Between two overflow resets a path's connection is so opened at most once.
C35_Step ==
    /\ (pc = "route" /\ pc' = "await") =>
          LET keys == {k[1] : k \in DOMAIN routed'.batches \ {None}} IN
          /\ DOMAIN by_path' \ KeptPaths = keys \ KeptPaths
          /\ \A p \in KeptPaths :
                /\ p \in DOMAIN by_path'
                /\ by_path'[p] = by_path[p]
          /\ \A w \in 1..Len(waiters') :
                waiters'[w].key # None =>
                    /\ waiters'[w].key[1] \in DOMAIN by_path'
                    /\ waiters'[w].conn = by_path'[waiters'[w].key[1]]
    /\ ~(pc = "route" /\ pc' = "await") => by_path' = by_path

C35_ConnectionOpenedOncePerPath == [][C35_Step]_vars

\* the second call is routed to Some(/x) in its first iteration and waits on
\* the connection the first call opened from the referral to X, the cache
\* holding an unexpired referral for /x
C35_Witness ==
    /\ calls = 2
    /\ iters = 1
    /\ pc = "await"
    /\ Len(waiters) = 1
    /\ waiters[1].key = Some(P_x)
    /\ waiters[1].conn = NewConn(R_x)
    /\ by_path = (P_x :> NewConn(R_x))

\* --------------------------------------------------------------------- C36
\* the index of the first failed result of ws, Len(ws) + 1 if none failed
FirstFailed(ws) ==
    LET F == {w \in 1..Len(ws) : ws[w].st = "err"} IN
    IF F = {} THEN Len(ws) + 1 ELSE CHOOSE w \in F : \A v \in F : w <= v

\* the places <<w, j>> of the Referral replies send handles before it returns
ReferralPlaces(ws) ==
    {pl \in UNION {{<<w, j>> : j \in 1..Len(ws[w].resp)} :
                      w \in 1..(FirstFailed(ws) - 1)} :
        ws[pl[1]].resp[pl[2]][2].type = "Referral"}

\* the referral at a place, and the order the places are handled in
ReferralAt(ws, pl) == ws[pl[1]].resp[pl[2]][2].ref
PlaceLE(a, b) == a[1] < b[1] \/ (a[1] = b[1] /\ a[2] <= b[2])

\* C36: in the step in which send returns an error, by_path keeps every
\* connection it held, every path cached before is still cached, every
\* referral handled before the error is in the cache under its path (the last
\* one handled for a path with its expiry now + ttl), and every other entry
\* is as it was.
C36_ErrorStep ==
    (AllAnswered /\ pc' = "done" /\ result'.tag = "Err") =>
        LET places == ReferralPlaces(waiters)
            named == {ReferralAt(waiters, pl).path : pl \in places}
        IN /\ by_path' = by_path
           /\ DOMAIN cached' = DOMAIN cached \cup named
           /\ \A p \in DOMAIN cached \ named : cached'[p] = cached[p]
           /\ \A pl \in places :
                 LET r == ReferralAt(waiters, pl) IN
                 (\A pl2 \in places :
                     ReferralAt(waiters, pl2).path = r.path => PlaceLE(pl2, pl))
                     => cached'[r.path] = [exp |-> now + r.ttl, ref |-> r]

C36_FailureRollsBackNothing == [][C36_ErrorStep]_vars

\* the call failed for a lost sub-request in an iteration in which another
\* backend had answered with a referral: the referral for /x is cached and the
\* connection to the cluster of /x is in by_path
C36_Witness ==
    /\ pc = "done"
    /\ result = Err(TransportError)
    /\ \E i \in DOMAIN got : got[i].type = "Referral"
    /\ P_x \in DOMAIN cached
    /\ P_x \in DOMAIN by_path

\* --------------------------------------------------------------------- C37
\* C37 as stated: an iteration after the first dispatches only operations
\* whose reply in the iteration before was a Referral.
C37_OriginalStep ==
    (pc = "route" /\ pc' = "await" /\ iters >= 1) =>
        \A pr \in Dispatched(waiters') :
            /\ pr[1] \in DOMAIN got
            /\ got[pr[1]].type = "Referral"

SentIn(ws, id) ==
    {pl \in UNION {{<<w, j>> : j \in 1..Len(ws[w].req)} : w \in 1..Len(ws)} :
        ws[pl[1]].req[pl[2]][1] = id}

\* C37 amended: every iteration of a send call, the first or a later one,
\* dispatches every operation of the batch exactly once, whether the reply it
\* got in the iteration before was terminal or a Referral; an operation so
\* reaches a backend once per iteration of the call, and a Publish answered
\* Published is sent again when another reply of its iteration was a Referral.
C37_Step ==
    (pc = "route" /\ pc' = "await") =>
        /\ \A i \in 1..Len(batch) :
              /\ Cardinality(SentIn(waiters', i - 1)) = 1
              /\ \A pl \in SentIn(waiters', i - 1) :
                    waiters'[pl[1]].req[pl[2]][2] = batch[i]
        /\ \A w \in 1..Len(waiters') :
              \A j \in 1..Len(waiters'[w].req) :
                  waiters'[w].req[j][1] + 1 \in 1..Len(batch)

C38_RouteStep ==
    /\ (routed = NoRoute /\ routed' # NoRoute) =>
          \A key \in DOMAIN routed'.batches :
              key # None => get_referral(cached', key[1]) # None
    /\ (peer.pc = "route" /\ peer'.pc = "await") =>
          \A w \in 1..Len(peer'.waiters) :
              peer'.waiters[w].key # None =>
                  get_referral(cached', peer'.waiters[w].key[1]) # None

C38_UnwrapNeverFails == [][C38_RouteStep]_vars

\* one routing pass evicted /a/b, expired and matched by the first operation,
\* and routed the second operation to Some(/a), which is still cached
C38_Witness ==
    /\ Len(batch) = 2
    /\ batch[2] = Op("Resolve", P_ac)
    /\ routed.gc = <<P_ab>>
    /\ Some(P_a) \in DOMAIN routed.batches
    /\ get_referral(cached, P_a) # None
    /\ get_referral(cached, P_ab) = None

\* --------------------------------------------------------------------- C39
\* C39 as stated: a sub-batch routed to Some(p) is sent on a connection opened
\* from the referral cached under p.
C39_Original ==
    pc = "await" =>
        \A w \in 1..Len(waiters) :
            (waiters[w].key # None /\ waiters[w].key[1] \in DOMAIN cached) =>
                waiters[w].conn.addrs = cached[waiters[w].key[1]].ref.addrs

\* C39 amended: a routing pass sends the sub-batch routed to Some(p) on the
\* connection by_path holds for p when it holds one, whatever referral is
\* cached under p by then; only when it holds none is a connection opened, from
\* the referral cached under p in that pass.  The connection of p is so the
\* one opened from the referral that was cached when p was first routed to
\* since the last overflow reset.
C39_Step ==
    (pc = "route" /\ pc' = "await") =>
        \A w \in 1..Len(waiters') :
            waiters'[w].key # None =>
                LET p == waiters'[w].key[1] IN
                IF p \in KeptPaths
                THEN waiters'[w].conn = by_path[p]
                ELSE /\ p \in DOMAIN cached'
                     /\ waiters'[w].conn.addrs = cached'[p].ref.addrs
                     /\ by_path'[p] = waiters'[w].conn

C39_ConnectionFromFirstReferral == [][C39_Step]_vars

\* /x/1 waits on the connection opened from the referral to X while the cache
\* holds the referral of /x to Y
C39_Witness ==
    /\ pc = "await"
    /\ Len(waiters) = 1
    /\ waiters[1].key = Some(P_x)
    /\ waiters[1].conn.addrs = "X"
    /\ P_x \in DOMAIN cached
    /\ cached[P_x].ref = R_xY

\* --------------------------------------------------------------------- C40
\* p has no empty component: past the leading '/' of an absolute path there
\* is nothing, or every piece between unescaped separators is non-empty
IsCanonicalPath(p) ==
    LET q == IF Len(p) > 0 /\ p[1] = "/" THEN Tail(p) ELSE p IN
    q = <<>> \/ \A k \in DOMAIN Pieces(q) : Pieces(q)[k] # <<>>

\* C40: the Path a constructor yields is canonical, whichever constructor it
\* is: Path::from, from_str, or decode when it succeeds.
C40_EveryConstructorCanonical ==
    /\ pathcall.fn \in {"from", "from_str"} => IsCanonicalPath(pathcall.out)
    /\ (pathcall.fn = "decode" /\ pathcall.out # None) =>
          IsCanonicalPath(pathcall.out[1])

====
